---------------------------- MODULE Spec2Model ----------------------------
(***************************************************************************)
(* A model of the LED panel display manager (teeohhem/led-live).           *)
(*                                                                         *)
(*   Spec         the scheduler loop of display_manager.main               *)
(*   AdapterSpec  the BLE display adapter (adapters/ipixel) and its        *)
(*                panel channels                                           *)
(*   ProtocolSpec the functions of adapters/ipixel/protocol.py             *)
(*   ModeSpec     a mode object (modes/*.py) driven through update         *)
(*                                                                         *)
(* Optional values (Python None) are sequences of length at most one:     *)
(* None is <<>> and a value x is <<x>>.                                    *)
(***************************************************************************)
EXTENDS Integers, Sequences, FiniteSets, TLC

(***************************************************************************)
(* Bounds of the model.                                                    *)
(***************************************************************************)
MaxTime == 5
MaxDt == 2
MaxPanels == 3
MaxOps == 3
MaxChunk == 4
MaxBuf == 5
MaxHex == 6
MaxPayload == 65522
MaxWindow == 3
MaxBlob == 131073

(***************************************************************************)
(* Configuration of display_manager (environment variables).  The         *)
(* intervals are configurable integers; they are scaled down here so that  *)
(* every timer can expire within MaxTime.                                  *)
(***************************************************************************)
SPORTS_CHECK_INTERVAL == 2
WEATHER_CHECK_INTERVAL == 3
STOCKS_CHECK_INTERVAL == 3
MODE_CHECK_INTERVAL == 1
DISPLAY_CYCLE_SECONDS == 3
DISPLAY_SPORTS_REFRESH_INTERVAL == 2
DISPLAY_WEATHER_REFRESH_INTERVAL == 2
DISPLAY_CLOCK_REFRESH_INTERVAL == 2
DISPLAY_STOCKS_REFRESH_INTERVAL == 2
\* TICKER_REFRESH_INTERVAL (modes/ticker_mode.py), scaled down likewise
TICKER_REFRESH_INTERVAL == 2

\* Panel height in rows (config.py, display.ipixel.size_height), scaled
\* down, and the chunk size write_cmd falls back to.
PANEL_HEIGHT == 2
DefaultChunkSize == 512
\* The defaults of _send_gif_windowed
GifChunkSize == 244
GifWindowSize == 12288

SPORTS == "sports"
CLOCK == "clock"
WEATHER == "weather"
STOCKS == "stocks"

DisplayMode == {SPORTS, CLOCK, WEATHER, STOCKS}

\* The values DISPLAY_CYCLE_MODES takes in this verification.
CycleModeConfigs ==
    { <<CLOCK, WEATHER>>,
      <<SPORTS, CLOCK>>,
      <<STOCKS, SPORTS, WEATHER>>,
      <<STOCKS>> }

None == <<>>
Some(x) == <<x>>
IsNone(o) == o = <<>>
Val(o) == o[1]

\* datetime.min, the initial value of last_stocks_check
DatetimeMin == 0 - 1000

(***************************************************************************)
(* Data the fetchers can return.                                           *)
(***************************************************************************)
Game(st, sc) == [state |-> st, home_score |-> sc]

GameLists ==
    { <<>>,
      <<Game("in", 0)>>,
      <<Game("in", 1)>>,
      <<Game("post", 1)>>,
      <<Game("pre", 0)>>,
      <<Game("post", 1), Game("in", 0)>> }

\* fetch_current_weather returns a dict, or None on any error;
\* the forecast fetchers return a list, [] on any error.
WeatherResults ==
    { [current |-> Some("W1"), forecasts |-> <<"F1">>],
      [current |-> Some("W2"), forecasts |-> <<"F1">>],
      [current |-> Some("W1"), forecasts |-> <<>>],
      [current |-> None, forecasts |-> <<>>] }

QuoteLists == { <<>>, <<"Q1">>, <<"Q2">> }

VARIABLES
    DISPLAY_CYCLE_MODES, DISPLAY_SPORTS_PRIORITY,
    pc, now, display_adapter,
    current_mode, last_mode_switch, last_sports_check, last_weather_fetch,
    games, prev_games_snapshot, last_sports_render,
    current_weather, weather_forecasts, prev_current_weather,
    prev_weather_forecasts, last_weather_render,
    last_clock_weather_render,
    stock_quotes, prev_stock_quotes, last_stocks_check, last_stocks_render,
    cycle_index, cycle_mode,
    target_mode, tick

configVars == <<DISPLAY_CYCLE_MODES, DISPLAY_SPORTS_PRIORITY>>
sportsVars == <<games, prev_games_snapshot, last_sports_render, last_sports_check>>
weatherVars == <<current_weather, weather_forecasts, prev_current_weather,
                 prev_weather_forecasts, last_weather_render, last_weather_fetch>>
clockVars == <<last_clock_weather_render>>
stocksVars == <<stock_quotes, prev_stock_quotes, last_stocks_check, last_stocks_render>>
cycleVars == <<cycle_index, cycle_mode, last_mode_switch>>

schedVars == <<configVars, pc, now, display_adapter, current_mode, sportsVars,
               weatherVars, clockVars, stocksVars, cycleVars, target_mode, tick>>

\* State of the BLE display adapter (adapters/ipixel/adapter.py) and of
\* the BleakClient objects it created.  A channel is named by its index in channels.
VARIABLES
    ADAPTER_TYPE, PIL_AVAILABLE, BLEAK_AVAILABLE,
    IPIXEL_BLE_ADDRESSES, max_write_without_response_size,
    channels, panel_clients, client, _connected,
    written, last_call, ops

adapterConfigVars ==
    <<ADAPTER_TYPE, PIL_AVAILABLE, BLEAK_AVAILABLE,
      IPIXEL_BLE_ADDRESSES, max_write_without_response_size>>

adapterVars == <<adapterConfigVars, channels, panel_clients, client,
                 _connected, written, last_call, ops>>

\* The pure functions of the protocol layer are applied one call at a
\* time: protocol_call records the function and its arguments,
\* protocol_result what it returned or raised.
VARIABLES protocol_call, protocol_result

protocolVars == <<protocol_call, protocol_result>>

\* A mode object (modes/*.py) under its caller: mode_object is the object,
\* mode_now the wall clock, mode_call the last method call and what it
\* returned.  last_rendered_data is a history variable, the cached data
\* the last rendered image was drawn from.
VARIABLES mode_object, mode_now, mode_call, last_rendered_data

modeVars == <<mode_object, mode_now, mode_call, last_rendered_data>>

vars == <<schedVars, adapterVars, protocolVars, modeVars>>


Range(seq) == { seq[i] : i \in DOMAIN seq }

(***************************************************************************)
(* Pure helpers of display_manager.                                        *)
(***************************************************************************)
IsLive(game) == game.state \in {"inProgress", "in"}

should_show_sports(gs) == \E i \in DOMAIN gs : IsLive(gs[i])

filter_live_games(gs) ==
    LET live_games == SelectSeq(gs, IsLive)
    IN  IF live_games # <<>> THEN live_games ELSE gs

IsDisplayable(game) ==
    game.state \in {"inProgress", "in", "post", "completed", "final"}

\* display_games of the sports branch
DisplayGames(gs) == filter_live_games(SelectSeq(gs, IsDisplayable))

\* (now - t).total_seconds() >= interval, for an optional timestamp t
\* guarded in the code by "t is None or ..."
DueSince(t, nw, interval) == IsNone(t) \/ nw - Val(t) >= interval

\* x.copy() if x else None, for the optional forecast list: an empty list
\* is falsy and is recorded as None
CopyIfTruthy(o) == IF IsNone(o) \/ Val(o) = <<>> THEN None ELSE o

should_check_sports ==
    SPORTS \in Range(DISPLAY_CYCLE_MODES) /\ DISPLAY_SPORTS_PRIORITY

\* The outcome of the guarded call of fetch_all_games: the games kept
GamesAfterFetch(outcome, old) ==
    IF outcome.kind = "raise" THEN <<>> ELSE outcome.games

HasLiveSports(gs) == should_check_sports /\ should_show_sports(gs)

\* the condition of the sports priority branch
PriorityActive(gs) ==
    /\ DISPLAY_SPORTS_PRIORITY
    /\ SPORTS \in Range(DISPLAY_CYCLE_MODES)
    /\ HasLiveSports(gs)

\* mutant of NextCycleIndex: the index moves by two
NextCycleIndex_ByTwo(i) == (i + 2) % Len(DISPLAY_CYCLE_MODES)

NextCycleIndex(i) == (i + 1) % Len(DISPLAY_CYCLE_MODES)

CycleElapsed(nw, lms) == nw - lms >= DISPLAY_CYCLE_SECONDS

\* mutant of CycleAdvances: the cycle timer moves the cycle in priority
\* ticks too
CycleAdvances_InPriorityTicks(priority, elapsed) == elapsed

\* The cycle moves on only in the else branch of the priority test, when
\* the cycle timer has run out (lines 262-270)
CycleAdvances(priority, elapsed) == ~priority /\ elapsed

\* mutants of ChooseTarget: the cycle decides alone; the former priority
\* mode is kept for one more tick; the mode on display is kept
ChooseTarget_IgnorePriority(priority, cm) == cm

ChooseTarget_Sticky(priority, cm) ==
    IF priority \/ tick.priority THEN SPORTS ELSE cm

ChooseTarget_KeepCurrent(priority, cm) ==
    IF priority THEN SPORTS
    ELSE IF current_mode # None THEN Val(current_mode) ELSE cm

ChooseTarget(priority, cm) == IF priority THEN SPORTS ELSE cm

SportsFetchOutcomes ==
    [kind : {"ok"}, games : GameLists]
        \cup { [kind |-> "error_swallowed", games |-> <<>>],
               [kind |-> "raise", games |-> <<>>] }

NoTick ==
    [start_index |-> 0, priority |-> FALSE, elapsed |-> FALSE,
     switched |-> FALSE, calls |-> <<>>, skipped |-> FALSE, slept |-> FALSE,
     failed |-> {}, upload_error |-> FALSE, select_index |-> 0,
     prev_priority |-> FALSE, prev_target |-> None, prev_skipped |-> None]

SchedInit ==
    /\ DISPLAY_CYCLE_MODES \in CycleModeConfigs
    /\ DISPLAY_SPORTS_PRIORITY \in BOOLEAN
    /\ pc = "start"
    /\ now = 0
    /\ display_adapter = [is_connected |-> FALSE, screen |-> "off"]
    /\ current_mode = None
    /\ last_mode_switch = 0
    /\ last_sports_check = 0
    /\ last_weather_fetch = None
    /\ games = <<>>
    /\ prev_games_snapshot = None
    /\ last_sports_render = None
    /\ current_weather = None
    /\ weather_forecasts = None
    /\ prev_current_weather = None
    /\ prev_weather_forecasts = None
    /\ last_weather_render = None
    /\ last_clock_weather_render = None
    /\ stock_quotes = <<>>
    /\ prev_stock_quotes = None
    /\ last_stocks_check = DatetimeMin
    /\ last_stocks_render = None
    /\ cycle_index = 0
    /\ cycle_mode = DISPLAY_CYCLE_MODES[1]
    /\ target_mode = None
    /\ tick = NoTick

(***************************************************************************)
(* connect() and power_on() before the loop; a failure of either           *)
(* propagates out of main (they are outside the try block).                *)
(***************************************************************************)
Startup ==
    /\ pc = "start"
    /\ \E outcome \in {"ok", "connect_failed", "power_on_failed"} :
         /\ pc' = IF outcome = "ok" THEN "top" ELSE "crashed"
         /\ display_adapter' =
              [display_adapter EXCEPT
                 !.is_connected = (outcome # "connect_failed"),
                 !.screen = IF outcome = "ok" THEN "on" ELSE @]
    /\ UNCHANGED <<adapterVars, protocolVars, modeVars>>
    /\ UNCHANGED <<configVars, now, current_mode, sportsVars, weatherVars,
                   clockVars, stocksVars, cycleVars, target_mode, tick>>

(***************************************************************************)
(* Top of one loop iteration: read the clock, check for games, choose the  *)
(* target mode (display_manager.py lines 230-274).                         *)
(***************************************************************************)
TickSelect ==
    /\ pc = "top"
    /\ \E dt \in (IF tick.slept THEN MODE_CHECK_INTERVAL ELSE 0) .. MaxDt,
          outcome \in SportsFetchOutcomes :
         LET nw == now + dt
             due == should_check_sports
                      /\ nw - last_sports_check >= SPORTS_CHECK_INTERVAL
             gs == IF due THEN GamesAfterFetch(outcome, games) ELSE games
             priority == PriorityActive(gs)
             elapsed == CycleElapsed(nw, last_mode_switch)
             advance == CycleAdvances(priority, elapsed)
             ci == IF advance THEN NextCycleIndex(cycle_index) ELSE cycle_index
             cm == IF advance THEN DISPLAY_CYCLE_MODES[ci + 1] ELSE cycle_mode
         IN  /\ nw <= MaxTime
             /\ now' = nw
             /\ games' = gs
             /\ last_sports_check' =
                  IF due /\ outcome.kind # "raise" THEN nw ELSE last_sports_check
             /\ cycle_index' = ci
             /\ cycle_mode' = cm
             /\ last_mode_switch' = IF advance THEN nw ELSE last_mode_switch
             /\ target_mode' = Some(ChooseTarget(priority, cm))
             /\ tick' = [start_index |-> cycle_index,
                         priority |-> priority,
                         elapsed |-> elapsed,
                         switched |-> FALSE,
                         calls |-> <<>>,
                         skipped |-> FALSE,
                         slept |-> FALSE,
                         failed |-> IF due /\ outcome.kind # "ok"
                                    THEN {SPORTS} ELSE {},
                         upload_error |-> FALSE,
                         select_index |-> ci,
                         prev_priority |-> tick.priority,
                         prev_target |-> target_mode,
                         prev_skipped |-> IF tick.skipped THEN target_mode ELSE None]
    /\ pc' = "switch"
    /\ UNCHANGED <<adapterVars, protocolVars, modeVars>>
    /\ UNCHANGED <<configVars, display_adapter, current_mode,
                   prev_games_snapshot, last_sports_render, weatherVars,
                   clockVars, stocksVars>>

(***************************************************************************)
(* The mode switch block (lines 276-287).                                  *)
(***************************************************************************)
\* state reset when entering the target mode: the new prev_games_snapshot
ResetOnEnter(target, snapshot) == IF target = SPORTS THEN None ELSE snapshot

\* what the handlers of main do with an exception raised inside the loop
\* (lines 468-481): the loop is left, the finally block disconnects the
\* adapter and main returns
AfterLoopError == [pc |-> "exited", is_connected |-> FALSE]

TickSwitch ==
    /\ pc = "switch"
    /\ IF target_mode # current_mode
       THEN \E cleared \in BOOLEAN :
              /\ tick' = [tick EXCEPT !.switched = cleared,
                                      !.calls = Append(@, "clear_screen")]
              /\ IF cleared
                 THEN /\ display_adapter' =
                           [display_adapter EXCEPT !.screen = "cleared"]
                      /\ current_mode' = target_mode
                      /\ prev_games_snapshot' =
                           ResetOnEnter(Val(target_mode), prev_games_snapshot)
                      /\ pc' = "render"
                 ELSE /\ display_adapter' =
                           [display_adapter EXCEPT
                              !.is_connected = AfterLoopError.is_connected]
                      /\ pc' = AfterLoopError.pc
                      /\ UNCHANGED <<current_mode, prev_games_snapshot>>
       ELSE /\ pc' = "render"
            /\ UNCHANGED <<display_adapter, current_mode, prev_games_snapshot,
                           tick>>
    /\ UNCHANGED <<adapterVars, protocolVars, modeVars>>
    /\ UNCHANGED <<configVars, now, games, last_sports_render, last_sports_check,
                   weatherVars, clockVars, stocksVars, cycleVars, target_mode>>

(***************************************************************************)
(* The render block of the current mode (lines 289-467).  Each helper      *)
(* takes the record of the tick so far.                                    *)
(***************************************************************************)
UploadOutcomes == {"ok", "UploadError"}

\* mutant of SkipToNextMode: current_mode is not cleared
SkipToNextMode_KeepMode(log) ==
    /\ cycle_index' = NextCycleIndex(cycle_index)
    /\ cycle_mode' = DISPLAY_CYCLE_MODES[NextCycleIndex(cycle_index) + 1]
    /\ last_mode_switch' = now
    /\ current_mode' = current_mode
    /\ pc' = "top"
    /\ tick' = [log EXCEPT !.skipped = TRUE]
    /\ UNCHANGED display_adapter

\* "skip to next mode in cycle" (lines 301-308 and 430-437): continue
\* without sleeping
SkipToNextMode(log) ==
    /\ cycle_index' = NextCycleIndex(cycle_index)
    /\ cycle_mode' = DISPLAY_CYCLE_MODES[NextCycleIndex(cycle_index) + 1]
    /\ last_mode_switch' = now
    /\ current_mode' = None
    /\ pc' = "top"
    /\ tick' = [log EXCEPT !.skipped = TRUE]
    /\ UNCHANGED display_adapter

\* await display_adapter.upload_image(img, clear_first=False) returned
Uploaded(log, img) ==
    /\ display_adapter' = [display_adapter EXCEPT !.screen = img]
    /\ tick' = [log EXCEPT !.calls = Append(@, "upload_image"), !.slept = TRUE]
    /\ pc' = "top"

\* the tick ends in asyncio.sleep(MODE_CHECK_INTERVAL) without an upload
NoUpload(log) ==
    /\ tick' = [log EXCEPT !.slept = TRUE]
    /\ pc' = "top"
    /\ UNCHANGED display_adapter

\* upload_image raised UploadError
UploadRaised(log) ==
    /\ display_adapter' =
         [display_adapter EXCEPT !.is_connected = AfterLoopError.is_connected]
    /\ tick' = [log EXCEPT !.calls = Append(@, "upload_image"),
                           !.upload_error = TRUE]
    /\ pc' = AfterLoopError.pc

\* data_changed or needs_refresh
NeedsRender(data_changed, last_render, interval) ==
    data_changed \/ DueSince(last_render, now, interval)

RenderSports ==
    /\ pc = "render"
    /\ current_mode = Some(SPORTS)
    /\ LET display_games == DisplayGames(games)
           current_snapshot == Some(display_games)
           data_changed == current_snapshot # prev_games_snapshot
       IN  IF display_games = <<>>
           THEN /\ SkipToNextMode(tick)
                /\ UNCHANGED <<prev_games_snapshot, last_sports_render>>
           ELSE IF NeedsRender(data_changed, last_sports_render,
                               DISPLAY_SPORTS_REFRESH_INTERVAL)
           THEN \E up \in UploadOutcomes :
                  IF up = "ok"
                  THEN /\ Uploaded(tick, SPORTS)
                       /\ prev_games_snapshot' = current_snapshot
                       /\ last_sports_render' = Some(now)
                       /\ UNCHANGED <<current_mode, cycleVars>>
                  ELSE /\ UploadRaised(tick)
                       /\ UNCHANGED <<prev_games_snapshot, last_sports_render,
                                      current_mode, cycleVars>>
           ELSE /\ NoUpload(tick)
                /\ UNCHANGED <<prev_games_snapshot, last_sports_render,
                               current_mode, cycleVars>>
    /\ UNCHANGED <<adapterVars, protocolVars, modeVars>>
    /\ UNCHANGED <<configVars, now, games, last_sports_check, weatherVars,
                   clockVars, stocksVars, target_mode>>

\* The weather fetch shared by the clock and the weather branch
\* (lines 345-352 and 382-389): the values of current_weather,
\* weather_forecasts and last_weather_fetch after it.  The fetchers
\* report a failure by returning None and [].
WeatherAfterFetch(r) ==
    IF DueSince(last_weather_fetch, now, WEATHER_CHECK_INTERVAL)
    THEN [current |-> r.current, forecasts |-> Some(r.forecasts),
          fetched |-> Some(now), failed |-> IsNone(r.current)]
    ELSE [current |-> current_weather, forecasts |-> weather_forecasts,
          fetched |-> last_weather_fetch, failed |-> FALSE]

FetchLog(failed, mode) ==
    [tick EXCEPT !.failed = IF failed THEN @ \cup {mode} ELSE @]

RenderClock ==
    /\ pc = "render"
    /\ current_mode = Some(CLOCK)
    /\ \E r \in WeatherResults, up \in UploadOutcomes :
         LET w == WeatherAfterFetch(r)
             needs_refresh == DueSince(last_clock_weather_render, now,
                                       DISPLAY_CLOCK_REFRESH_INTERVAL)
             log == FetchLog(w.failed, WEATHER)
         IN  /\ current_weather' = w.current
             /\ weather_forecasts' = w.forecasts
             /\ last_weather_fetch' = w.fetched
             /\ IF needs_refresh /\ ~IsNone(w.current)
                THEN IF up = "ok"
                     THEN /\ Uploaded(log, CLOCK)
                          /\ last_clock_weather_render' = Some(now)
                     ELSE /\ UploadRaised(log)
                          /\ UNCHANGED last_clock_weather_render
                ELSE /\ NoUpload(log)
                     /\ UNCHANGED last_clock_weather_render
    /\ UNCHANGED <<adapterVars, protocolVars, modeVars>>
    /\ UNCHANGED <<configVars, now, current_mode, sportsVars,
                   prev_current_weather, prev_weather_forecasts,
                   last_weather_render, stocksVars, cycleVars, target_mode>>

RenderWeather ==
    /\ pc = "render"
    /\ current_mode = Some(WEATHER)
    /\ \E r \in WeatherResults, up \in UploadOutcomes :
         LET w == WeatherAfterFetch(r)
             weather_changed == \/ prev_current_weather # w.current
                                \/ prev_weather_forecasts # w.forecasts
             log == FetchLog(w.failed, WEATHER)
         IN  /\ current_weather' = w.current
             /\ weather_forecasts' = w.forecasts
             /\ last_weather_fetch' = w.fetched
             /\ IF NeedsRender(weather_changed, last_weather_render,
                               DISPLAY_WEATHER_REFRESH_INTERVAL)
                THEN IF ~IsNone(w.current) /\ up # "ok"
                     THEN /\ UploadRaised(log)
                          /\ UNCHANGED <<prev_current_weather,
                                         prev_weather_forecasts, last_weather_render>>
                     ELSE /\ IF ~IsNone(w.current)
                             THEN Uploaded(log, WEATHER)
                             ELSE NoUpload(log)
                          /\ prev_current_weather' = w.current
                          /\ prev_weather_forecasts' = CopyIfTruthy(w.forecasts)
                          /\ last_weather_render' = Some(now)
                ELSE /\ NoUpload(log)
                     /\ UNCHANGED <<prev_current_weather,
                                    prev_weather_forecasts, last_weather_render>>
    /\ UNCHANGED <<adapterVars, protocolVars, modeVars>>
    /\ UNCHANGED <<configVars, now, current_mode, sportsVars, clockVars,
                   stocksVars, cycleVars, target_mode>>

StocksFetchOutcomes ==
    [kind : {"ok"}, quotes : QuoteLists]
        \cup { [kind |-> "error_swallowed", quotes |-> <<>>],
               [kind |-> "raise", quotes |-> <<>>] }

\* the quotes kept after the guarded call of fetch_stock_quotes
QuotesAfterFetch(outcome, old) ==
    IF outcome.kind = "raise" THEN <<>> ELSE outcome.quotes

RenderStocks ==
    /\ pc = "render"
    /\ current_mode = Some(STOCKS)
    /\ \E outcome \in StocksFetchOutcomes, up \in UploadOutcomes :
         LET due == now - last_stocks_check >= STOCKS_CHECK_INTERVAL
             qs == IF due THEN QuotesAfterFetch(outcome, stock_quotes)
                   ELSE stock_quotes
             current_snapshot == Some(qs)
             data_changed == current_snapshot # prev_stock_quotes
             log == FetchLog(due /\ outcome.kind # "ok", STOCKS)
         IN  /\ stock_quotes' = qs
             /\ last_stocks_check' =
                  IF due /\ outcome.kind # "raise" THEN now ELSE last_stocks_check
             /\ IF qs = <<>>
                THEN /\ SkipToNextMode(log)
                     /\ UNCHANGED <<prev_stock_quotes, last_stocks_render>>
                ELSE IF NeedsRender(data_changed, last_stocks_render,
                                    DISPLAY_STOCKS_REFRESH_INTERVAL)
                THEN IF up = "ok"
                     THEN /\ Uploaded(log, STOCKS)
                          /\ prev_stock_quotes' = current_snapshot
                          /\ last_stocks_render' = Some(now)
                          /\ UNCHANGED <<current_mode, cycleVars>>
                     ELSE /\ UploadRaised(log)
                          /\ UNCHANGED <<prev_stock_quotes, last_stocks_render,
                                         current_mode, cycleVars>>
                ELSE /\ NoUpload(log)
                     /\ UNCHANGED <<prev_stock_quotes, last_stocks_render,
                                    current_mode, cycleVars>>
    /\ UNCHANGED <<adapterVars, protocolVars, modeVars>>
    /\ UNCHANGED <<configVars, now, sportsVars, weatherVars, clockVars,
                   target_mode>>

SchedNext ==
    \/ Startup
    \/ TickSelect
    \/ TickSwitch
    \/ RenderSports
    \/ RenderClock
    \/ RenderWeather
    \/ RenderStocks

(***************************************************************************)
(* Bytes and packets of the panel protocol (adapters/ipixel/protocol.py).  *)
(* A byte is a number in 0 .. 255; a buffer is a sequence of bytes.        *)
(***************************************************************************)
Min(a, b) == IF a < b THEN a ELSE b

SCREEN_ON == <<5, 0, 7, 1, 1>>
SCREEN_OFF == <<5, 0, 7, 1, 0>>
CLEAR_SCREEN == <<5, 0, 8, 1, 1>>
stop_draw == <<5, 0, 4, 1, 0>>

\* What a function call gives: the value it returns, or the exception
\* it raises
Return(v) == [raised |-> "", value |-> v]
Raise(e) == [raised |-> e, value |-> <<>>]

\* A hex string is the sequence of its digits, each a number in 0 .. 15.
\* mutant of switch_endian: the first pair is moved to the end
switch_endian_RotatePairs(hex_string) ==
    IF Len(hex_string) % 2 # 0 THEN Raise("ValueError")
    ELSE Return([i \in 1 .. Len(hex_string) |->
                   hex_string[((i + 1) % Len(hex_string)) + 1]])

\* reversed(pairs), joined: digit i of the result is in pair k, which is
\* pair number (pairs - k + 1) of the argument
switch_endian(hex_string) ==
    IF Len(hex_string) % 2 # 0 THEN Raise("ValueError")
    ELSE LET pairs == Len(hex_string) \div 2
         IN  Return([i \in 1 .. Len(hex_string) |->
                       hex_string[2 * (pairs - ((i + 1) \div 2)) + 2 - (i % 2)]])

\* Bitwise exclusive or of two naturals
\* (of 16-bit halves: bit p of the result is the sum of the bits p modulo 2)
BitXor(a, b) ==
    LET x(p) == p * (((a \div p) + (b \div p)) % 2)
    IN  IF a = 0 THEN b
        ELSE IF b = 0 THEN a
        ELSE (x(1) + x(2) + x(4) + x(8)) + (x(16) + x(32) + x(64) + x(128))
               + ((x(256) + x(512) + x(1024) + x(2048))
                    + (x(4096) + x(8192) + x(16384) + x(32768)))

\* A 32-bit word is kept as its two 16-bit halves.
Word(h, l) == [hi |-> h, lo |-> l]

WordXor(v, w) == Word(BitXor(v.hi, w.hi), BitXor(v.lo, w.lo))

ShiftRight1(w) == Word(w.hi \div 2, (w.lo \div 2) + (w.hi % 2) * 32768)

\* The reflected CRC-32 polynomial 0xEDB88320 of zlib.crc32
Crc32Poly == Word(60856, 33568)

Crc32Bit(w) ==
    IF w.lo % 2 = 1 THEN WordXor(ShiftRight1(w), Crc32Poly) ELSE ShiftRight1(w)

\* The register stays a pair of 16-bit halves
IsWord(w) == w.hi \in 0 .. 65535 /\ w.lo \in 0 .. 65535

RECURSIVE Crc32Bits(_, _)
Crc32Bits(w, n) ==
    IF n = 0 \/ ~IsWord(w) THEN w ELSE Crc32Bits(Crc32Bit(w), n - 1)

\* The table of the byte-wise algorithm: entry b is the word b after
\* eight bit steps.
Crc32Table == [b \in 0 .. 255 |-> Crc32Bits(Word(0, b), 8)]

ShiftRight8(w) == Word(w.hi \div 256, (w.lo \div 256) + (w.hi % 256) * 256)

Crc32Byte(w, byte) ==
    WordXor(Crc32Table[BitXor(w.lo % 256, byte)], ShiftRight8(w))

RECURSIVE Crc32Update(_, _)
Crc32Update(w, data) ==
    IF data = <<>> \/ ~IsWord(w) THEN w
    ELSE Crc32Update(Crc32Byte(w, Head(data)), Tail(data))

\* zlib.crc32(data) & 0xFFFFFFFF
crc32(data) ==
    WordXor(Crc32Update(Word(65535, 65535), data), Word(65535, 65535))

\* An image is the sequence of its rows, top to bottom; a row is one
\* byte (the colour of the row).  Rows(h) is the image of height h whose
\* row y has colour y.
Rows(h) == [y \in 1 .. h |-> y]

\* image.crop((0, y_start, PANEL_WIDTH, y_end)): PIL fills the rows outside
\* the image with black.
Crop(image, y_start, y_end) ==
    [i \in 1 .. (y_end - y_start) |->
        IF y_start + i <= Len(image) THEN image[y_start + i] ELSE 0]

\* image.save(format='PNG'): the encoded file, abstracted to a signature
\* byte, the height and the rows (an injective encoding of the image).
Png(image) == <<137, Len(image)>> \o image

\* The 15-byte header of create_png_packet, for a PNG of png_len bytes
\* with checksum crc (x & 0xFF is x % 256, x >> 8 is x \div 256)
PngHeader(png_len, crc) ==
    LET total_len == png_len + 15
    IN  << total_len % 256, (total_len \div 256) % 256,
           2, 0,
           0,
           png_len % 256, (png_len \div 256) % 256,
           (png_len \div 65536) % 256, (png_len \div 16777216) % 256,
           crc.lo % 256, (crc.lo \div 256) % 256,
           crc.hi % 256, (crc.hi \div 256) % 256,
           0, 47 >>

\* mutant of create_png_packet: the checksum is taken over the rows of
\* the image, not over the encoded PNG data
create_png_packet_CrcOverRows(image) ==
    LET png_data == Png(image)
    IN  PngHeader(Len(png_data), crc32(image)) \o png_data

create_png_packet(image) ==
    LET png_data == Png(image)
        crc == crc32(png_data)
        png_len == Len(png_data)
    IN  PngHeader(png_len, crc) \o png_data

\* mutant of Chunks: the last, shorter chunk is not sent
Chunks_DropTail(data, chunk_size) ==
    [k \in 1 .. (Len(data) \div chunk_size) |->
        SubSeq(data, (k - 1) * chunk_size + 1, k * chunk_size)]

\* data[i:i+chunk_size] for i in range(0, len(data), chunk_size)
Chunks(data, chunk_size) ==
    [k \in 1 .. ((Len(data) + chunk_size - 1) \div chunk_size) |->
        SubSeq(data, (k - 1) * chunk_size + 1, Min(k * chunk_size, Len(data)))]

(***************************************************************************)
(* The BLE display adapter (adapters/ipixel/adapter.py) over the protocol  *)
(* layer (adapters/ipixel/protocol.py).                                    *)
(***************************************************************************)
AddressConfigs == { [i \in 1 .. n |-> i] : n \in 0 .. MaxPanels }

ChunkSizes == { None, Some(MaxChunk) }

Images == { Rows(PANEL_HEIGHT * k) : k \in 1 .. MaxPanels }

Gifs == { <<Rows(PANEL_HEIGHT), Rows(2 * PANEL_HEIGHT)>> }

PanelSelections ==
    {None, Some(<<>>)}
        \cup { Some(<<p>>) : p \in 0 .. MaxPanels }
        \cup { Some(<<p, q>>) : p, q \in 0 .. 1 }

Call(op, raised) ==
    [op |-> op, image |-> None, gif |-> None, clear_first |-> FALSE,
     panels |-> None, max_frames |-> None, io_failure |-> 0,
     raised |-> raised]

\* The adapter modules; adapters/ipixel imports bleak and PIL
\* unconditionally, adapters/ipixel20x64 runs without them.
AdapterTypes == {"ipixel", "ipixel20x64"}

\* BLE_ADDRESS_TOP and BLE_ADDRESS_BOTTOM of the ipixel20x64 adapter
DualPanelAddresses == <<1, 2>>

\* The fields set by __init__
AdapterFresh ==
    /\ channels = <<>>
    /\ panel_clients = <<>>
    /\ client = None
    /\ _connected = FALSE
    /\ written = <<>>
    /\ last_call = Call("__init__", "")
    /\ ops = 0

AdapterInit ==
    /\ ADAPTER_TYPE \in AdapterTypes
    /\ PIL_AVAILABLE \in BOOLEAN
    /\ BLEAK_AVAILABLE \in BOOLEAN
    /\ IF ADAPTER_TYPE = "ipixel"
       THEN /\ PIL_AVAILABLE /\ BLEAK_AVAILABLE
            /\ IPIXEL_BLE_ADDRESSES \in AddressConfigs
            /\ max_write_without_response_size \in ChunkSizes
       ELSE /\ IPIXEL_BLE_ADDRESSES = DualPanelAddresses
            /\ max_write_without_response_size = None
    /\ AdapterFresh

\* One write_gatt_char call: the bytes data written to channel ch
Write(ch, data) == [ch |-> ch, data |-> data]

\* client.services.get_characteristic(...).max_write_without_response_size,
\* or 512 when the lookup raises
ChunkSize ==
    IF IsNone(max_write_without_response_size)
    THEN DefaultChunkSize
    ELSE Val(max_write_without_response_size)

\* The write_gatt_char calls of write_cmd_single(ch, data)
write_cmd_single(ch, data) ==
    LET chunks == Chunks(data, ChunkSize)
    IN  [k \in DOMAIN chunks |-> Write(ch, chunks[k])]

\* MultiPanelClient(panel_clients); bottom_client is 0 when the
\* attribute is never set (a single panel)
MultiPanelClient(pcs) ==
    [panel_count |-> Len(pcs),
     top_client |-> pcs[1],
     bottom_client |-> IF Len(pcs) >= 2 THEN pcs[2] ELSE 0]

\* The write_gatt_char calls of write_cmd(cl, data) on a MultiPanelClient
write_cmd(cl, data) ==
    write_cmd_single(cl.top_client, data)
        \o write_cmd_single(cl.bottom_client, data)

(***************************************************************************)
(* The animation packet and its windowed transfer.  A hex string is the    *)
(* sequence of its digits (0..15), bytes are sequences of 0..255.          *)
(***************************************************************************)
\* bytes.hex(): two digits for each byte, the high one first
BytesHex(b) ==
    [i \in 1 .. (2 * Len(b)) |->
        IF i % 2 = 1 THEN b[(i + 1) \div 2] \div 16 ELSE b[i \div 2] % 16]

\* bytes.fromhex(h), h made of hex digits
FromHex(h) ==
    IF Len(h) % 2 # 0 THEN Raise("ValueError")
    ELSE Return([k \in 1 .. (Len(h) \div 2) |-> 16 * h[2 * k - 1] + h[2 * k]])

\* hex(n)[2:]
RECURSIVE HexOf(_)
HexOf(n) == IF n < 16 THEN <<n>> ELSE Append(HexOf(n \div 16), n % 16)

\* s.zfill(size): zeros on the left up to size digits, s itself when it
\* is longer
Zfill(s, size) == [i \in 1 .. (size - Len(s)) |-> 0] \o s

get_frame_size(data, size) ==
    switch_endian(Zfill(HexOf(Len(data) \div 2), size))

\* f"{calculated_crc:08x}", endian switched
CRC32_checksum(data) ==
    LET bytes == FromHex(data)
    IN  IF bytes.raised # "" THEN bytes
        ELSE LET calculated_crc == crc32(bytes.value)
             IN  switch_endian(Zfill(HexOf(calculated_crc.hi), 4)
                                  \o Zfill(HexOf(calculated_crc.lo), 4))

\* mutant of create_gif_packet: the length prefix counts the payload
\* without the two bytes of the prefix
create_gif_packet_PrefixOverPayload(processed_gif_data) ==
    IF Len(processed_gif_data) = 0 THEN Raise("ValueError")
    ELSE LET gif_hex == BytesHex(processed_gif_data)
             checksum == CRC32_checksum(gif_hex)
             size == get_frame_size(gif_hex, 8)
             body == <<0, 3, 0, 0, 0, 0>> \o size.value
                        \o checksum.value \o <<0, 2, 0, 1>> \o gif_hex
         IN  FromHex(get_frame_size(body, 4).value \o body)

\* create_gif_packet from the bytes _gif_bytes produced
\* (processed_gif_data)
create_gif_packet(processed_gif_data) ==
    IF Len(processed_gif_data) = 0 THEN Raise("ValueError")
    ELSE LET gif_hex == BytesHex(processed_gif_data)
             checksum == CRC32_checksum(gif_hex)
             size == get_frame_size(gif_hex, 8)
         IN  IF checksum.raised # "" THEN checksum
             ELSE IF size.raised # "" THEN size
             ELSE LET body == <<0, 3, 0, 0, 0, 0>> \o size.value
                                 \o checksum.value \o <<0, 2, 0, 1>> \o gif_hex
                      frame_size == get_frame_size(<<15, 15, 15, 15>> \o body, 4)
                  IN  IF frame_size.raised # "" THEN frame_size
                      ELSE FromHex(frame_size.value \o body)

\* int.from_bytes(b, "little")
FromLittleEndian(b) ==
    b[1] + 256 * b[2] + 65536 * b[3] + 16777216 * b[4]

\* _parse_gif_transport(data): None, or the fields of the packet
\* (data[i] of the code is data[i + 1] here)
_parse_gif_transport(data) ==
    IF Len(data) < 2 + 13 THEN None
    ELSE IF data[3] # 3 \/ data[4] # 0 THEN None
    ELSE IF data[14] # 2 \/ data[15] # 1 THEN None
    ELSE LET size_bytes == SubSeq(data, 6, 9)
             gif_len == FromLittleEndian(size_bytes)
         IN  IF 15 + gif_len > Len(data) THEN None
             ELSE Some([gif_bytes |-> SubSeq(data, 16, 15 + gif_len),
                        size_bytes |-> size_bytes,
                        crc_bytes |-> SubSeq(data, 10, 13),
                        tail_bytes |-> SubSeq(data, 14, 15)])

\* mutant of WindowHeader: every window carries the option and serial of
\* the first one
WindowHeader_AlwaysFirst(window_index, size_bytes, crc_bytes) ==
    <<3, 0, 0>> \o size_bytes \o crc_bytes \o <<2, 1>>

\* The header of window number window_index (0x65 is 101)
WindowHeader(window_index, size_bytes, crc_bytes) ==
    LET option == IF window_index = 0 THEN 0 ELSE 2
        serial == IF window_index = 0 THEN 1 ELSE 101
        cur_tail == <<2, serial>>
    IN  <<3, 0, option>> \o size_bytes \o crc_bytes \o cur_tail

\* The loop of _send_gif_windowed from position pos on: the windows
\* sent, each one the sequence of pieces handed to write_cmd, and the
\* exception that ended the loop, if any
RECURSIVE SendWindows(_, _, _, _, _)
SendWindows(parsed, pos, window_index, chunk_size, window_size) ==
    LET gif == parsed.gif_bytes
    IN  IF ~(pos < Len(gif)) THEN [raised |-> "", windows |-> <<>>]
        ELSE LET window_end == Min(pos + window_size, Len(gif))
                 chunk_payload == SubSeq(gif, pos + 1, window_end)
                 frame == WindowHeader(window_index, parsed.size_bytes,
                                       parsed.crc_bytes) \o chunk_payload
                 prefix_hex == get_frame_size(<<15, 15, 15, 15>> \o BytesHex(frame), 4)
             IN  IF prefix_hex.raised # ""
                 THEN [raised |-> prefix_hex.raised, windows |-> <<>>]
                 ELSE LET from_hex == FromHex(prefix_hex.value)
                          total == Len(frame) + 2
                          prefix == IF from_hex.raised # ""
                                    THEN <<(total \div 256) % 256, total % 256>>
                                    ELSE from_hex.value
                          message == prefix \o frame
                          rest == SendWindows(parsed, window_end, window_index + 1,
                                              chunk_size, window_size)
                      IN  [raised |-> rest.raised,
                           windows |-> <<Chunks(message, chunk_size)>> \o rest.windows]

\* The write_gatt_char calls of the pieces of the windows, in order
RECURSIVE WindowWrites(_, _)
WindowWrites(cl, pieces) ==
    IF pieces = <<>> THEN <<>>
    ELSE write_cmd(cl, Head(pieces)) \o WindowWrites(cl, Tail(pieces))

\* The sequences of seqs, one after the other (joined by halves, to keep
\* the evaluation shallow)
RECURSIVE Joined(_)
Joined(seqs) ==
    IF Len(seqs) = 0 THEN <<>>
    ELSE IF Len(seqs) = 1 THEN seqs[1]
    ELSE LET half == Len(seqs) \div 2
         IN  Joined(SubSeq(seqs, 1, half))
                \o Joined(SubSeq(seqs, half + 1, Len(seqs)))

\* _send_gif_windowed(client, data, chunk_size, window_size): whether
\* the packet was parsed, the windows sent and the writes made
_send_gif_windowed(cl, data, chunk_size, window_size) ==
    LET parsed == _parse_gif_transport(data)
    IN  IF IsNone(parsed)
        THEN [raised |-> "", windowed |-> FALSE, windows |-> <<>>,
              writes |-> write_cmd(cl, data)]
        ELSE LET sent == SendWindows(Val(parsed), 0, 0, chunk_size, window_size)
             IN  [raised |-> sent.raised, windowed |-> TRUE,
                  windows |-> sent.windows,
                  writes |-> WindowWrites(cl, Joined(sent.windows))]

IsOpen(chs, ch) == ch \in DOMAIN chs /\ chs[ch].is_connected

\* The first call of the sequence ws that raises: the one the link fails
\* on (fail), or a write to a channel that is closed or does not exist;
\* 0 when every call returns.
FirstFailure(ws, fail, chs) ==
    LET bad == { i \in DOMAIN ws : i = fail \/ ~IsOpen(chs, ws[i].ch) }
    IN  IF bad = {} THEN 0 ELSE CHOOSE i \in bad : \A j \in bad : i <= j

Performed(ws, fail, chs) ==
    LET f == FirstFailure(ws, fail, chs)
    IN  IF f = 0 THEN ws ELSE SubSeq(ws, 1, f - 1)

\* The link and write calls connect() makes when none of them raises
ConnectCalls ==
    IF IPIXEL_BLE_ADDRESSES = <<>> THEN 0
    ELSE Len(IPIXEL_BLE_ADDRESSES) + 2 * Len(Chunks(SCREEN_ON, ChunkSize))

\* connect(): call number fail raises (0: the link never fails).  The
\* calls are client.connect() for each address, then the writes of
\* init_panels.
Connect(fail) ==
    /\ ADAPTER_TYPE = "ipixel"
    /\ ops < MaxOps
    /\ LET n == Len(IPIXEL_BLE_ADDRESSES)
           opened == IF fail \in 1 .. n THEN fail - 1 ELSE n
           chs == channels \o
                    [i \in 1 .. opened |->
                        [address |-> IPIXEL_BLE_ADDRESSES[i],
                         is_connected |-> TRUE]]
           pcs == panel_clients \o [i \in 1 .. opened |-> Len(channels) + i]
           call == [Call("connect", "") EXCEPT !.io_failure = fail]
       IN  /\ channels' = chs
           /\ panel_clients' = pcs
           /\ IF n = 0 \/ opened < n
              THEN /\ client' = client
                   /\ written' = <<>>
                   /\ _connected' = FALSE
                   /\ last_call' = [call EXCEPT !.raised = "ConnectionError"]
              ELSE LET cl == MultiPanelClient(pcs)
                       ws == write_cmd(cl, SCREEN_ON)
                       wfail == IF fail > n THEN fail - n ELSE 0
                       f == FirstFailure(ws, wfail, chs)
                   IN  /\ client' = Some(cl)
                       /\ written' = Performed(ws, wfail, chs)
                       /\ _connected' = (f = 0)
                       /\ last_call' =
                            [call EXCEPT !.raised =
                               IF f = 0 THEN "" ELSE "ConnectionError"]
    /\ ops' = ops + 1
    /\ UNCHANGED adapterConfigVars
    /\ UNCHANGED <<schedVars, protocolVars, modeVars>>

\* disconnect(): MultiPanelClient.disconnect closes the clients of the
\* list in order; call number fail raises and leaves the rest open.
Disconnect(fail) ==
    /\ ADAPTER_TYPE = "ipixel"
    /\ ops < MaxOps
    /\ LET targets == IF IsNone(client) THEN <<>> ELSE panel_clients
           closed == IF fail \in 1 .. Len(targets) THEN fail - 1 ELSE Len(targets)
           raised == closed < Len(targets)
       IN  /\ fail <= Len(targets)
           /\ channels' =
                [c \in DOMAIN channels |->
                    IF \E i \in 1 .. closed : targets[i] = c
                    THEN [channels[c] EXCEPT !.is_connected = FALSE]
                    ELSE channels[c]]
           /\ _connected' = IF raised THEN _connected ELSE FALSE
           /\ last_call' =
                [Call("disconnect", IF raised THEN "BleakError" ELSE "")
                   EXCEPT !.io_failure = fail]
    /\ written' = <<>>
    /\ ops' = ops + 1
    /\ UNCHANGED <<adapterConfigVars, panel_clients, client>>
    /\ UNCHANGED <<schedVars, protocolVars, modeVars>>

ValidPanels(panels, total_panels) ==
    \/ IsNone(panels)
    \/ \A i \in DOMAIN Val(panels) : Val(panels)[i] \in 0 .. total_panels - 1

_normalize_panel_indices(panels, total_panels) ==
    IF IsNone(panels) \/ Val(panels) = <<>>
    THEN [i \in 1 .. total_panels |-> i - 1]
    ELSE Val(panels)

\* The images the model encodes, with their packets
Resize(image, height) ==
    IF Len(image) = height THEN image
    ELSE [i \in 1 .. height |-> image[((i - 1) * Len(image)) \div height + 1]]

KnownImages ==
    LET whole == Images \cup { Resize(Rows(PANEL_HEIGHT * k), PANEL_HEIGHT) :
                                 k \in 1 .. 2 }
    IN  whole \cup { Crop(img, p * PANEL_HEIGHT, (p + 1) * PANEL_HEIGHT) :
                       img \in whole, p \in 0 .. MaxPanels }

PacketTable == [img \in KnownImages |-> create_png_packet(img)]

PngPacket(img) ==
    IF img \in KnownImages THEN PacketTable[img] ELSE create_png_packet(img)

\* A plan is what a protocol function does when the link never fails:
\* the write_gatt_char calls it makes, and whether it then raises.
Plan(ws, raises) == [writes |-> ws, raises |-> raises]

RECURSIVE InOrder(_)
InOrder(plans) ==
    IF plans = <<>> THEN Plan(<<>>, FALSE)
    ELSE IF Head(plans).raises THEN Head(plans)
    ELSE LET rest == InOrder(Tail(plans))
         IN  Plan(Head(plans).writes \o rest.writes, rest.raises)

\* mutant of SendToPanel: the prepare command follows the packet
SendToPanel_PrepareLast(ch, img) ==
    Plan(write_cmd_single(ch, PngPacket(img)) \o <<Write(ch, stop_draw)>>, FALSE)

\* One pass of the per-panel loop of upload_png
SendToPanel(ch, img) ==
    Plan(<<Write(ch, stop_draw)>> \o write_cmd_single(ch, PngPacket(img)), FALSE)

upload_png(cl, pcs, image, clear_first, panels) ==
    LET clear == Plan(IF clear_first THEN write_cmd(cl, CLEAR_SCREEN) ELSE <<>>,
                      FALSE)
        target_panels == _normalize_panel_indices(panels, cl.panel_count)
        split == /\ Len(image) = PANEL_HEIGHT * cl.panel_count
                 /\ Len(target_panels) > 1
        PanelImage(p) ==
            IF split
            THEN Crop(image, p * PANEL_HEIGHT, (p + 1) * PANEL_HEIGHT)
            ELSE image
    IN  IF ~ValidPanels(panels, cl.panel_count)
        THEN InOrder(<<clear, Plan(<<>>, TRUE)>>)
        ELSE InOrder(<<clear>> \o
                     [k \in DOMAIN target_panels |->
                         SendToPanel(pcs[target_panels[k] + 1],
                                     PanelImage(target_panels[k]))])

\* upload_gif and play_gif_frames(loop=False): a gif is the sequence of
\* its frames.
upload_gif(cl, pcs, gif, clear_first, max_frames, panels) ==
    LET clear == Plan(IF clear_first THEN write_cmd(cl, CLEAR_SCREEN) ELSE <<>>,
                      FALSE)
        total_frames == Len(gif)
        frame_count ==
            Min(IF IsNone(max_frames) \/ Val(max_frames) = 0
                THEN total_frames ELSE Val(max_frames),
                total_frames)
    IN  InOrder(<<clear>> \o
                [frame_idx \in 1 .. frame_count |->
                    upload_png(cl, pcs, Resize(gif[frame_idx], PANEL_HEIGHT),
                               FALSE, panels)])

\* An upload changes nothing of the adapter but the record of the last
\* call, so an upload that follows an upload starts from the adapter state
\* the first one started from; the model explores one upload in a row.
IsUploadCall(call) == call.op \in {"upload_image", "upload_gif"}

\* The same holds of clear_screen, power_on and power_off: the calls that
\* only send.
IsSendCall(call) ==
    IsUploadCall(call) \/ call.op \in {"clear_screen", "power_on", "power_off"}

NotConnected == ~_connected \/ IsNone(client)

\* The outcome of running a plan on the link: fail is the write call the
\* link raises on.
Upload(call, plan, fail) ==
    LET f == FirstFailure(plan.writes, fail, channels)
    IN  /\ fail <= Len(plan.writes)
        /\ written' = Performed(plan.writes, fail, channels)
        /\ last_call' =
             [call EXCEPT !.io_failure = fail,
                          !.raised = IF f # 0 \/ plan.raises
                                     THEN "UploadError" ELSE ""]

RaiseNotConnected(call) ==
    /\ written' = <<>>
    /\ last_call' = [call EXCEPT !.raised = "ConnectionError"]

UploadImage(image, clear_first, panels) ==
    /\ ADAPTER_TYPE = "ipixel"
    /\ ops < MaxOps
    /\ ~IsSendCall(last_call)
    /\ LET call == [Call("upload_image", "") EXCEPT
                       !.image = Some(image), !.clear_first = clear_first,
                       !.panels = panels]
       IN  IF NotConnected
           THEN RaiseNotConnected(call)
           ELSE LET plan == upload_png(Val(client), panel_clients, image,
                                       clear_first, panels)
                IN  \E fail \in 0 .. Len(plan.writes) : Upload(call, plan, fail)
    /\ ops' = ops + 1
    /\ UNCHANGED <<adapterConfigVars, channels, panel_clients, client,
                   _connected>>
    /\ UNCHANGED <<schedVars, protocolVars, modeVars>>

UploadGif(gif, clear_first, max_frames, panels) ==
    /\ ADAPTER_TYPE = "ipixel"
    /\ ops < MaxOps
    /\ ~IsSendCall(last_call)
    /\ LET call == [Call("upload_gif", "") EXCEPT
                       !.gif = Some(gif), !.clear_first = clear_first,
                       !.max_frames = max_frames, !.panels = panels]
       IN  IF NotConnected
           THEN RaiseNotConnected(call)
           ELSE LET plan == upload_gif(Val(client), panel_clients, gif,
                                       clear_first, max_frames, panels)
                IN  \E fail \in 0 .. Len(plan.writes) : Upload(call, plan, fail)
    /\ ops' = ops + 1
    /\ UNCHANGED <<adapterConfigVars, channels, panel_clients, client,
                   _connected>>
    /\ UNCHANGED <<schedVars, protocolVars, modeVars>>

FrameLimits == { None, Some(1) }

\* clear_screen_completely(cl): the writes of write_cmd(cl, CLEAR_SCREEN);
\* an exception of theirs is logged and not raised again.
clear_screen_completely(cl) == Plan(write_cmd(cl, CLEAR_SCREEN), FALSE)

led_on(cl) == Plan(write_cmd(cl, SCREEN_ON), FALSE)

led_off(cl) == Plan(write_cmd(cl, SCREEN_OFF), FALSE)

\* clear_screen(): the exception of a failed write never leaves
\* clear_screen_completely, so the except branch of the adapter is not
\* entered.
ClearScreen ==
    /\ ADAPTER_TYPE = "ipixel"
    /\ ops < MaxOps
    /\ ~IsSendCall(last_call)
    /\ LET call == Call("clear_screen", "")
       IN  IF NotConnected
           THEN RaiseNotConnected(call)
           ELSE LET plan == clear_screen_completely(Val(client))
                IN  \E fail \in 0 .. Len(plan.writes) :
                      /\ written' = Performed(plan.writes, fail, channels)
                      /\ last_call' = [call EXCEPT !.io_failure = fail]
    /\ ops' = ops + 1
    /\ UNCHANGED <<adapterConfigVars, channels, panel_clients, client,
                   _connected>>
    /\ UNCHANGED <<schedVars, protocolVars, modeVars>>

\* power_on() and power_off()
Power(op, plan) ==
    /\ ADAPTER_TYPE = "ipixel"
    /\ ops < MaxOps
    /\ ~IsSendCall(last_call)
    /\ IF NotConnected
       THEN RaiseNotConnected(Call(op, ""))
       ELSE \E fail \in 0 .. Len(plan.writes) : Upload(Call(op, ""), plan, fail)
    /\ ops' = ops + 1
    /\ UNCHANGED <<adapterConfigVars, channels, panel_clients, client,
                   _connected>>
    /\ UNCHANGED <<schedVars, protocolVars, modeVars>>

PowerOn ==
    Power("power_on", IF IsNone(client) THEN Plan(<<>>, FALSE)
                      ELSE led_on(Val(client)))

PowerOff ==
    Power("power_off", IF IsNone(client) THEN Plan(<<>>, FALSE)
                       ELSE led_off(Val(client)))

(***************************************************************************)
(* The dual-panel adapter (adapters/ipixel20x64/adapter.py).  Its          *)
(* top_client and bottom_client are kept in panel_clients, as              *)
(* <<top_client, bottom_client>>.  The functions it imports from its       *)
(* protocol module are calls that return or raise (init_panels,            *)
(* upload_png) or close the channels (DualPanelClient.disconnect); the     *)
(* bytes they write are not recorded.                                      *)
(***************************************************************************)
DualPanelClient(top_client, bottom_client) ==
    [panel_count |-> 2, top_client |-> top_client,
     bottom_client |-> bottom_client]

\* connect(): call number fail raises (1: top_client.connect(),
\* 2: bottom_client.connect(), 3: init_panels; 0: none)
Connect20x64(fail) ==
    /\ ADAPTER_TYPE = "ipixel20x64"
    /\ ops < MaxOps
    /\ LET call == [Call("connect", "") EXCEPT !.io_failure = fail]
           top == Len(channels) + 1
           bottom == Len(channels) + 2
       IN  IF ~BLEAK_AVAILABLE
           THEN /\ fail = 0
                /\ last_call' = [call EXCEPT !.raised = "ConnectionError"]
                /\ UNCHANGED <<channels, panel_clients, client, _connected>>
           ELSE /\ channels' = channels \o
                      [i \in 1 .. 2 |->
                          [address |-> DualPanelAddresses[i],
                           is_connected |-> (fail = 0 \/ fail > i)]]
                /\ panel_clients' = <<top, bottom>>
                /\ client' = IF fail \in {1, 2} THEN client
                             ELSE Some(DualPanelClient(top, bottom))
                /\ _connected' = (fail = 0)
                /\ last_call' =
                     [call EXCEPT !.raised =
                        IF fail = 0 THEN "" ELSE "ConnectionError"]
    /\ written' = <<>>
    /\ ops' = ops + 1
    /\ UNCHANGED adapterConfigVars
    /\ UNCHANGED <<schedVars, protocolVars, modeVars>>

\* disconnect(): DualPanelClient.disconnect closes the two channels of
\* the client.
Disconnect20x64 ==
    /\ ADAPTER_TYPE = "ipixel20x64"
    /\ ops < MaxOps
    /\ LET targets == IF IsNone(client) THEN {}
                      ELSE {Val(client).top_client, Val(client).bottom_client}
       IN  channels' =
             [c \in DOMAIN channels |->
                 IF c \in targets
                 THEN [channels[c] EXCEPT !.is_connected = FALSE]
                 ELSE channels[c]]
    /\ _connected' = FALSE
    /\ last_call' = Call("disconnect", "")
    /\ written' = <<>>
    /\ ops' = ops + 1
    /\ UNCHANGED <<adapterConfigVars, panel_clients, client>>
    /\ UNCHANGED <<schedVars, protocolVars, modeVars>>

\* upload_image(image, clear_first): the library check comes first, then
\* the connection check, then the opaque upload_png (fail: it raises).
UploadImage20x64(image, clear_first, fail) ==
    /\ ADAPTER_TYPE = "ipixel20x64"
    /\ ops < MaxOps
    /\ ~IsSendCall(last_call)
    /\ fail => (PIL_AVAILABLE /\ ~NotConnected)
    /\ LET call == [Call("upload_image", "") EXCEPT
                       !.image = Some(image), !.clear_first = clear_first,
                       !.io_failure = IF fail THEN 1 ELSE 0]
       IN  last_call' =
             [call EXCEPT !.raised =
                IF ~PIL_AVAILABLE THEN "UploadError"
                ELSE IF NotConnected THEN "ConnectionError"
                ELSE IF fail THEN "UploadError" ELSE ""]
    /\ written' = <<>>
    /\ ops' = ops + 1
    /\ UNCHANGED <<adapterConfigVars, channels, panel_clients, client,
                   _connected>>
    /\ UNCHANGED <<schedVars, protocolVars, modeVars>>

\* The display_height property: the panel height times the panel count
\* of the client, the height of one panel when there is no client
display_height ==
    IF IsNone(client) THEN PANEL_HEIGHT
    ELSE PANEL_HEIGHT * Val(client).panel_count

\* The names bound in the module adapters/ipixel/adapter.py: its imports,
\* its logger and its class
AdapterModuleNames ==
    {"asyncio", "logging", "Optional", "List", "BleakClient", "Image",
     "DisplayAdapter", "ConnectionError", "UploadError", "logger",
     "MultiPanelClient", "_get_panel_addresses", "set_panel_dimensions",
     "clear_screen_completely", "init_panels", "upload_png", "upload_gif",
     "led_on", "led_off", "BLEDisplayAdapter"}

\* get_info() of an adapter whose client is cl: the values of the
\* dictionary are evaluated in order, and a name that is not bound
\* raises NameError
get_info(cl) ==
    IF {"DISPLAY_WIDTH", "DISPLAY_HEIGHT"} \subseteq AdapterModuleNames
    THEN Return([adapter_type |-> "ipixel", device_count |-> 2,
                 total_height |-> IF IsNone(cl) THEN PANEL_HEIGHT
                                  ELSE PANEL_HEIGHT * Val(cl).panel_count])
    ELSE Raise("NameError")

GetInfo ==
    /\ ADAPTER_TYPE = "ipixel"
    /\ ops < MaxOps
    /\ last_call.op # "get_info"
    /\ last_call' = Call("get_info", get_info(client).raised)
    /\ written' = <<>>
    /\ ops' = ops + 1
    /\ UNCHANGED <<adapterConfigVars, channels, panel_clients, client,
                   _connected>>
    /\ UNCHANGED <<schedVars, protocolVars, modeVars>>

AdapterNext ==
    \/ \E fail \in 0 .. ConnectCalls : Connect(fail)
    \/ \E fail \in 0 .. Len(panel_clients) : Disconnect(fail)
    \/ \E image \in Images, clear_first \in BOOLEAN, panels \in PanelSelections :
         UploadImage(image, clear_first, panels)
    \/ \E gif \in Gifs, clear_first \in BOOLEAN, max_frames \in FrameLimits,
          panels \in PanelSelections :
         UploadGif(gif, clear_first, max_frames, panels)
    \/ ClearScreen
    \/ PowerOn
    \/ PowerOff
    \/ GetInfo
    \/ \E fail \in 0 .. 3 : Connect20x64(fail)
    \/ Disconnect20x64
    \/ \E image \in Images, clear_first \in BOOLEAN, fail \in BOOLEAN :
         UploadImage20x64(image, clear_first, fail)

\* The adapter before any call, as the scheduler's specification holds it
AdapterIdle ==
    /\ AdapterInit
    /\ ADAPTER_TYPE = "ipixel"
    /\ IPIXEL_BLE_ADDRESSES = <<1, 2>>
    /\ max_write_without_response_size = None

\* The scheduler before main runs, as the adapter's specification holds it
SchedIdle ==
    /\ SchedInit
    /\ DISPLAY_CYCLE_MODES = <<CLOCK, WEATHER>>
    /\ DISPLAY_SPORTS_PRIORITY = FALSE

\* No protocol function applied yet
ProtocolIdle ==
    /\ protocol_call = [op |-> "none"]
    /\ protocol_result = None

\* No mode object constructed
ModeIdle ==
    /\ mode_object = [name |-> "none"]
    /\ mode_now = 0
    /\ mode_call = [op |-> "none"]
    /\ last_rendered_data = None

Init == SchedInit /\ AdapterIdle /\ ProtocolIdle /\ ModeIdle

Next == SchedNext

Spec == Init /\ [][Next]_vars

(***************************************************************************)
(* The specification of the protocol functions: each action applies one   *)
(* function of adapters/ipixel/protocol.py to arguments drawn from small   *)
(* sets.                                                                   *)
(***************************************************************************)
\* The values the MTU query returns: it raises (None), or a size
MtuValues == {None} \cup { Some(m) : m \in 1 .. MaxChunk }

RECURSIVE SeqsUpTo(_, _)
SeqsUpTo(S, n) ==
    IF n = 0 THEN {<<>>}
    ELSE LET shorter == SeqsUpTo(S, n - 1)
         IN  shorter \cup { Append(q, x) : q \in shorter, x \in S }

\* A buffer longer than two default chunks
LongBuffer == [i \in 1 .. (2 * DefaultChunkSize + MaxBuf) |-> i % 256]

\* The buffers handed to the chunker: the short ones, and the long one
\* where the chunk size is the default
Buffers ==
    SeqsUpTo({0, 255}, MaxBuf)
        \cup (IF ChunkSize = DefaultChunkSize THEN {LongBuffer} ELSE {})

ProtocolInit ==
    /\ SchedIdle
    /\ ADAPTER_TYPE = "ipixel"
    /\ PIL_AVAILABLE = TRUE
    /\ BLEAK_AVAILABLE = TRUE
    /\ IPIXEL_BLE_ADDRESSES = DualPanelAddresses
    /\ max_write_without_response_size \in MtuValues
    /\ AdapterFresh
    /\ ProtocolIdle
    /\ ModeIdle

\* One call of a protocol function: the functions keep no state between
\* calls, so a behaviour is a single call.  They leave the scheduler and
\* the adapter alone.
Apply(call, result) ==
    /\ protocol_call.op = "none"
    /\ protocol_call' = call
    /\ protocol_result' = result
    /\ UNCHANGED <<schedVars, adapterVars, modeVars>>

\* write_cmd_single(client, data) on the client of channel 1
WriteCmdSingle(data) ==
    Apply([op |-> "write_cmd_single", data |-> data],
          Some(write_cmd_single(1, data)))

\* write_cmd(client, data) on a MultiPanelClient of channels 1 and 2
WriteCmd(data) ==
    Apply([op |-> "write_cmd", data |-> data],
          Some(write_cmd(MultiPanelClient(<<1, 2>>), data)))

\* The hex strings handed to switch_endian
HexStrings == SeqsUpTo({0, 10, 15}, MaxHex)

SwitchEndian(hex_string) ==
    Apply([op |-> "switch_endian", data |-> hex_string],
          switch_endian(hex_string))

\* The images handed to create_png_packet: at least one row
PacketImages == SeqsUpTo({0, 255}, MaxBuf) \ {<<>>}

CreatePngPacket(image) ==
    Apply([op |-> "create_png_packet", image |-> image],
          Return(create_png_packet(image)))

\* The sizes of PNG data the header is built for: small ones, the ones
\* around a byte boundary, and the ones around 65536 - 15
PayloadLengths == (1 .. 3) \cup (255 .. 257) \cup (65519 .. MaxPayload)

\* The header lines of create_png_packet (523-541), for PNG data of
\* png_len bytes
CreatePngHeader(png_len, crc) ==
    Apply([op |-> "create_png_packet.header", png_len |-> png_len, crc |-> crc],
          Return(PngHeader(png_len, crc)))

\* The animation byte streams (the output of _gif_bytes)
GifStreams == SeqsUpTo({0, 255}, MaxBuf) \ {<<>>}

\* A packet whose size field is zero: it parses, and carries no stream
EmptyTransport == <<15, 0, 3, 0, 0, 0, 0, 0, 0, 0, 0, 0, 0, 2, 1>>

\* Data that _parse_gif_transport refuses: too short, not an animation
\* command, a wrong tail, a size field larger than the data
MalformedTransports ==
    { <<15, 0, 3>>,
      [EmptyTransport EXCEPT ![3] = 5],
      [EmptyTransport EXCEPT ![15] = 101],
      [EmptyTransport EXCEPT ![6] = 1] }

\* The arguments of _send_gif_windowed: the stream a packet was built
\* from (None when there is none) and the packet
GifTransports ==
    { [gif |-> Some(g), data |-> create_gif_packet(g).value] : g \in GifStreams }
        \cup { [gif |-> Some(<<>>), data |-> EmptyTransport] }
        \cup { [gif |-> None, data |-> d] : d \in MalformedTransports }

SendGifWindowed(transport, chunk_size, window_size) ==
    Apply([op |-> "_send_gif_windowed", gif |-> transport.gif,
           data |-> transport.data, chunk_size |-> chunk_size,
           window_size |-> window_size],
          _send_gif_windowed(MultiPanelClient(<<1, 2>>), transport.data,
                             chunk_size, window_size))

\* The hex blobs handed to get_frame_size: only the length of a blob
\* matters to it.  Short ones, the ones around 256 and 4096 bytes, and
\* the ones around 65536 bytes.
BlobLengths ==
    (0 .. MaxHex) \cup (510 .. 513) \cup {8192} \cup (131070 .. MaxBlob)

Blob(n) == [i \in 1 .. n |-> 15]

\* The widths asked for: 8 and 4 are the ones the module uses
Widths == {1, 2, 3, 4, 8}

\* get_frame_size(data, size); the call is recorded with the length of
\* the blob
GetFrameSize(n, size) ==
    Apply([op |-> "get_frame_size", len |-> n, size |-> size],
          get_frame_size(Blob(n), size))

CreateGifPacket(processed_gif_data) ==
    Apply([op |-> "create_gif_packet", gif |-> processed_gif_data],
          create_gif_packet(processed_gif_data))

\* upload_png(client, image, clear_first, panels) on a MultiPanelClient
\* of channels 1 and 2, the link never failing
UploadPng(image, clear_first, panels) ==
    LET plan == upload_png(MultiPanelClient(<<1, 2>>), <<1, 2>>, image,
                           clear_first, panels)
    IN  Apply([op |-> "upload_png", image |-> image,
               clear_first |-> clear_first, panels |-> panels],
              [raised |-> IF plan.raises THEN "ValueError" ELSE "",
               writes |-> plan.writes])

ProtocolNext ==
    \/ \E data \in Buffers : WriteCmdSingle(data)
    \/ \E data \in Buffers : WriteCmd(data)
    \/ \E hex_string \in HexStrings : SwitchEndian(hex_string)
    \/ \E image \in PacketImages : CreatePngPacket(image)
    \/ \E image \in Images, clear_first \in BOOLEAN, panels \in PanelSelections :
         UploadPng(image, clear_first, panels)
    \/ \E n \in BlobLengths, size \in Widths : GetFrameSize(n, size)
    \/ \E g \in GifStreams \cup {<<>>} : CreateGifPacket(g)
    \/ \E transport \in GifTransports,
          chunk_size \in {MaxChunk, GifChunkSize},
          window_size \in (1 .. MaxWindow) \cup {GifWindowSize} :
         SendGifWindowed(transport, chunk_size, window_size)
    \/ \E png_len \in PayloadLengths, crc \in {Word(0, 0), Word(65535, 1)} :
         CreatePngHeader(png_len, crc)

ProtocolSpec == ProtocolInit /\ [][ProtocolNext]_vars

AdapterSpecInit == AdapterInit /\ SchedIdle /\ ProtocolIdle /\ ModeIdle

AdapterSpec == AdapterSpecInit /\ [][AdapterNext]_vars

(***************************************************************************)
(* The modes (modes/base_mode.py and the five concrete modes).  A mode     *)
(* object is a record of its attributes; a method that assigns to self     *)
(* returns the new object beside its value.  The argument now of the       *)
(* methods is written t_now.  _state is assigned by __init__ and           *)
(* reset_state and read by no mode: it is left out.                        *)
(***************************************************************************)
TICKER == "ticker"

ModeNames == {SPORTS, CLOCK, WEATHER, STOCKS, TICKER}

\* What the ticker's segment fetchers collect
TickerSegments == { <<>>, <<"S1">>, <<"S2">> }

ModeResult(image, should_skip, priority, state_changed) ==
    [image |-> image, should_skip |-> should_skip, priority |-> priority,
     state_changed |-> state_changed]

\* SportsMode.__init__, SPORTS_MODES and DISPLAY_SPORTS_PRIORITY at their
\* defaults (live and upcoming, priority enabled)
SportsMode ==
    [name |-> SPORTS, last_render |-> None, last_fetch |-> None,
     games |-> <<>>, display_games |-> <<>>, display_type |-> None,
     prev_snapshot |-> None,
     check_interval |-> SPORTS_CHECK_INTERVAL,
     refresh_interval |-> DISPLAY_SPORTS_REFRESH_INTERVAL]

ClockMode ==
    [name |-> CLOCK, last_render |-> None, last_fetch |-> None,
     current_weather |-> None, forecasts |-> None,
     weather_check_interval |-> WEATHER_CHECK_INTERVAL,
     refresh_interval |-> DISPLAY_CLOCK_REFRESH_INTERVAL]

WeatherMode ==
    [name |-> WEATHER, last_render |-> None, last_fetch |-> None,
     current_weather |-> None, forecasts |-> None,
     prev_weather |-> None, prev_forecasts |-> None,
     check_interval |-> WEATHER_CHECK_INTERVAL,
     refresh_interval |-> DISPLAY_WEATHER_REFRESH_INTERVAL]

StocksMode ==
    [name |-> STOCKS, last_render |-> None, last_fetch |-> None,
     quotes |-> <<>>, prev_snapshot |-> None,
     check_interval |-> STOCKS_CHECK_INTERVAL,
     refresh_interval |-> DISPLAY_STOCKS_REFRESH_INTERVAL]

\* TickerMode.__init__ in the single layout; segments is first assigned
\* by _fetch_single_mode
TickerMode ==
    [name |-> TICKER, last_render |-> None, last_fetch |-> None,
     segments |-> <<>>,
     refresh_interval |-> TICKER_REFRESH_INTERVAL]

Modes == {SportsMode, ClockMode, WeatherMode, StocksMode, TickerMode}

\* What the fetchers of a mode can return
FetchValues(name) ==
    CASE name = SPORTS -> GameLists
      [] name \in {CLOCK, WEATHER} -> WeatherResults
      [] name = STOCKS -> QuoteLists
      [] name = TICKER -> TickerSegments

IsUpcoming(game) == game.state \in {"pre", "STATUS_SCHEDULED"}

\* SportsMode._prepare_display_games with priority enabled
_prepare_display_games(self) ==
    LET live_games == SelectSeq(self.games, IsLive)
        upcoming_games == SelectSeq(self.games, IsUpcoming)
    IN  IF live_games # <<>>
        THEN [self EXCEPT !.display_games = live_games,
                          !.display_type = Some("live")]
        ELSE IF upcoming_games # <<>>
        THEN [self EXCEPT !.display_games = upcoming_games,
                          !.display_type = Some("upcoming")]
        ELSE [self EXCEPT !.display_games = <<>>, !.display_type = None]

\* SportsMode._create_snapshot: None, or the list of the tuples of the
\* fields the display type shows
_create_snapshot(self) ==
    IF self.display_games = <<>> THEN None
    ELSE Some([i \in DOMAIN self.display_games |->
                 IF self.display_type = Some("live")
                 THEN <<self.display_games[i].state,
                        self.display_games[i].home_score>>
                 ELSE <<self.display_games[i].state>>])

\* should_fetch of the concrete modes
should_fetch(self, t_now) ==
    LET interval ==
            CASE self.name = CLOCK -> self.weather_check_interval
              [] self.name = TICKER -> self.refresh_interval
              [] OTHER -> self.check_interval
    IN  \/ IsNone(self.last_fetch)
        \/ t_now - Val(self.last_fetch) >= interval

\* fetch_data: the fetchers return value and datetime.now() returns at,
\* or (ok false) a fetcher raises and the exception is logged
fetch_data(self, ok, value, at) ==
    CASE self.name = SPORTS ->
           IF ok THEN [self EXCEPT !.games = value, !.last_fetch = Some(at)]
           ELSE self
      [] self.name \in {CLOCK, WEATHER} ->
           IF ok THEN [self EXCEPT !.current_weather = value.current,
                                   !.forecasts = Some(value.forecasts),
                                   !.last_fetch = Some(at)]
           ELSE self
      [] self.name = STOCKS ->
           IF ok THEN [self EXCEPT !.quotes = value, !.last_fetch = Some(at)]
           ELSE self
      [] self.name = TICKER ->
           IF ok THEN [self EXCEPT !.segments = value, !.last_fetch = Some(at)]
           ELSE [self EXCEPT !.segments = <<>>]

has_data(self) ==
    CASE self.name = SPORTS ->
           LET prepared == _prepare_display_games(self)
           IN  [value |-> prepared.display_games # <<>>, self |-> prepared]
      [] self.name \in {CLOCK, WEATHER} ->
           [value |-> ~IsNone(self.current_weather), self |-> self]
      [] self.name = STOCKS ->
           [value |-> self.quotes # <<>>, self |-> self]
      [] self.name = TICKER ->
           [value |-> self.segments # <<>>, self |-> self]

\* "Periodic refresh needed?" of should_render
needs_refresh(self, t_now) ==
    \/ IsNone(self.last_render)
    \/ t_now - Val(self.last_render) >= self.refresh_interval

\* x.copy() if x else None, x a list or None
CopyOrNone(x) == IF ~IsNone(x) /\ Val(x) # <<>> THEN x ELSE None

should_render(self, t_now) ==
    CASE self.name = SPORTS ->
           LET current_snapshot == _create_snapshot(self)
           IN  IF current_snapshot # self.prev_snapshot
               THEN [value |-> TRUE,
                     self |-> [self EXCEPT !.prev_snapshot = current_snapshot]]
               ELSE [value |-> needs_refresh(self, t_now), self |-> self]
      [] self.name = CLOCK ->
           [value |-> needs_refresh(self, t_now), self |-> self]
      [] self.name = WEATHER ->
           IF \/ self.current_weather # self.prev_weather
              \/ self.forecasts # self.prev_forecasts
           THEN [value |-> TRUE,
                 self |-> [self EXCEPT
                             !.prev_weather = self.current_weather,
                             !.prev_forecasts = CopyOrNone(self.forecasts)]]
           ELSE [value |-> needs_refresh(self, t_now), self |-> self]
      [] self.name = STOCKS ->
           LET current_snapshot == Some(self.quotes)
           IN  IF current_snapshot # self.prev_snapshot
               THEN [value |-> TRUE,
                     self |-> [self EXCEPT !.prev_snapshot = current_snapshot]]
               ELSE [value |-> needs_refresh(self, t_now), self |-> self]
      [] self.name = TICKER ->
           [value |-> \/ IsNone(self.last_render)
                      \/ /\ ~IsNone(self.last_fetch)
                         /\ Val(self.last_fetch) > Val(self.last_render),
            self |-> self]

\* The cached data a mode draws its image from
CachedData(self) ==
    CASE self.name = SPORTS -> <<self.display_type, self.display_games>>
      [] self.name \in {CLOCK, WEATHER} ->
           <<self.current_weather, self.forecasts>>
      [] self.name = STOCKS -> self.quotes
      [] self.name = TICKER -> self.segments

\* render: the image is named by the mode and the data it shows; the
\* sports and ticker modes return None when they have nothing to draw
render(self) ==
    IF \/ self.name = SPORTS /\ self.display_games = <<>>
       \/ self.name = TICKER /\ self.segments = <<>>
    THEN None
    ELSE Some([mode |-> self.name, shows |-> CachedData(self)])

has_priority(self) ==
    /\ self.name = SPORTS
    /\ self.display_type = Some("live")
    /\ self.display_games # <<>>

\* mutant of update: last_render keeps its value after a render
update_KeepLastRender(self, t_now, ok, value, at) ==
    LET fetches == should_fetch(self, t_now)
        fetched == IF fetches THEN fetch_data(self, ok, value, at) ELSE self
        data == has_data(fetched)
        due == should_render(data.self, t_now)
    IN  IF ~data.value
        THEN [result |-> ModeResult(None, TRUE, FALSE, FALSE),
              self |-> data.self, fetches |-> fetches, has_data |-> FALSE,
              asked |-> data.self, due |-> None, renders |-> FALSE]
        ELSE IF ~due.value
        THEN [result |-> ModeResult(None, FALSE, FALSE, FALSE),
              self |-> due.self, fetches |-> fetches, has_data |-> TRUE,
              asked |-> data.self, due |-> Some(FALSE), renders |-> FALSE]
        ELSE [result |-> ModeResult(render(due.self), FALSE,
                                    has_priority(due.self), TRUE),
              self |-> due.self,
              fetches |-> fetches, has_data |-> TRUE,
              asked |-> data.self, due |-> Some(TRUE), renders |-> TRUE]

\* BaseMode.update(width, height, now).  Beside the ModeResult and the
\* object it leaves, the outcome records which methods ran: fetches
\* (fetch_data), has_data (its value), asked (the object should_render was
\* asked on), due (the value of should_render, None when not asked) and
\* renders (render).
update(self, t_now, ok, value, at) ==
    LET fetches == should_fetch(self, t_now)
        fetched == IF fetches THEN fetch_data(self, ok, value, at) ELSE self
        data == has_data(fetched)
        due == should_render(data.self, t_now)
    IN  IF ~data.value
        THEN [result |-> ModeResult(None, TRUE, FALSE, FALSE),
              self |-> data.self, fetches |-> fetches, has_data |-> FALSE,
              asked |-> data.self, due |-> None, renders |-> FALSE]
        ELSE IF ~due.value
        THEN [result |-> ModeResult(None, FALSE, FALSE, FALSE),
              self |-> due.self, fetches |-> fetches, has_data |-> TRUE,
              asked |-> data.self, due |-> Some(FALSE), renders |-> FALSE]
        ELSE [result |-> ModeResult(render(due.self), FALSE,
                                    has_priority(due.self), TRUE),
              self |-> [due.self EXCEPT !.last_render = Some(t_now)],
              fetches |-> fetches, has_data |-> TRUE,
              asked |-> data.self, due |-> Some(TRUE), renders |-> TRUE]

reset_state(self) == [self EXCEPT !.last_render = None]

\* A call of a method of the mode object, before it is filled in
ModeCall(op, self) ==
    [op |-> op, now |-> mode_now, before |-> self, fetches |-> FALSE,
     has_data |-> FALSE, asked |-> self, due |-> None, result |-> None]

ModeInit ==
    /\ SchedIdle
    /\ ADAPTER_TYPE = "ipixel"
    /\ PIL_AVAILABLE = TRUE
    /\ BLEAK_AVAILABLE = TRUE
    /\ IPIXEL_BLE_ADDRESSES = DualPanelAddresses
    /\ max_write_without_response_size = None
    /\ AdapterFresh
    /\ ProtocolIdle
    /\ mode_object \in Modes
    /\ mode_now = 0
    /\ mode_call = ModeCall("__init__", mode_object)
    /\ last_rendered_data = None

\* await mode.update(width, height, now), dt after the previous call; a
\* fetch takes lag and returns value, or fails
Update(dt, ok, value, lag) ==
    /\ mode_now + dt + lag <= MaxTime
    /\ LET t_now == mode_now + dt
           out == update(mode_object, t_now, ok, value, t_now + lag)
       IN  /\ mode_object' = out.self
           /\ mode_now' = IF out.fetches THEN t_now + lag ELSE t_now
           /\ mode_call' =
                [op |-> "update", now |-> t_now, before |-> mode_object,
                 fetches |-> out.fetches, has_data |-> out.has_data,
                 asked |-> out.asked, due |-> out.due,
                 result |-> Some(out.result)]
           /\ last_rendered_data' =
                IF out.renders THEN Some(CachedData(out.self))
                ELSE last_rendered_data
    /\ UNCHANGED <<schedVars, adapterVars, protocolVars>>

\* mode.reset_state()
ResetState ==
    /\ mode_call.op = "update"
    /\ mode_object' = reset_state(mode_object)
    /\ mode_call' = ModeCall("reset_state", mode_object)
    /\ UNCHANGED <<mode_now, last_rendered_data>>
    /\ UNCHANGED <<schedVars, adapterVars, protocolVars>>

ModeNext ==
    \/ \E dt \in 0 .. MaxDt, ok \in BOOLEAN, lag \in 1 .. MaxDt,
          value \in FetchValues(mode_object.name) :
         Update(dt, ok, value, lag)
    \/ ResetState

ModeSpec == ModeInit /\ [][ModeNext]_vars

TypeOK ==
    /\ pc \in {"start", "top", "switch", "render", "exited", "crashed"}
    /\ cycle_index \in 0 .. Len(DISPLAY_CYCLE_MODES) - 1
    /\ now \in 0 .. MaxTime

(***************************************************************************)
(* Properties of the scheduler loop.                                       *)
(***************************************************************************)
NumModes == Len(DISPLAY_CYCLE_MODES)

ModeAtIndex == DISPLAY_CYCLE_MODES[cycle_index + 1]

\* the loop iteration recorded in tick has run to its end
TickDone == tick.slept \/ tick.skipped \/ tick.upload_error

\* C1: in every tick, if sports is among the configured cycle modes, sports
\* priority is enabled and the cached games contain a live game, the chosen
\* target mode is sports, whatever cycle_index and the cycle timer are.
C1_PriorityDecidesTarget ==
    ( /\ pc = "switch"
      /\ SPORTS \in Range(DISPLAY_CYCLE_MODES)
      /\ DISPLAY_SPORTS_PRIORITY
      /\ \E i \in DOMAIN games : games[i].state \in {"inProgress", "in"} )
    => target_mode = Some(SPORTS)

C1_Witness ==
    /\ pc = "switch"
    /\ tick.priority
    /\ tick.elapsed
    /\ cycle_index # 0
    /\ ModeAtIndex # SPORTS
    /\ target_mode = Some(SPORTS)

\* C2 as stated: with no priority and the cycle duration elapsed, over the
\* whole tick cycle_index advances by exactly one modulo the number of
\* modes, also when the newly selected mode has no data.
C2_AdvancesByOneOverTick ==
    ( /\ pc \in {"top", "exited"}
      /\ TickDone
      /\ ~tick.priority
      /\ tick.elapsed )
    => cycle_index = (tick.start_index + 1) % NumModes

\* C2 amended: with no priority and the cycle duration elapsed, the cycle
\* timer step advances cycle_index by exactly one modulo the number of
\* modes; over the whole tick the advance is one, or two when the newly
\* selected mode has no data and is skipped.
C2_AdvancesByOneThenSkip ==
    /\ ( pc = "switch" /\ ~tick.priority /\ tick.elapsed
         => cycle_index = (tick.start_index + 1) % NumModes )
    /\ ( pc \in {"top", "exited"} /\ TickDone /\ ~tick.priority /\ tick.elapsed
         => cycle_index =
              (tick.start_index + (IF tick.skipped THEN 2 ELSE 1)) % NumModes )

C2_Witness ==
    /\ pc = "top"
    /\ ~tick.priority
    /\ tick.elapsed
    /\ tick.skipped
    /\ NumModes = 3
    /\ cycle_index = (tick.start_index + 2) % 3

\* C3: a mode that was the target by priority on one tick and has no
\* priority on the next tick is demoted on that tick: the target is the
\* mode at cycle_index.
C3_DemotedOnNextTick ==
    ( pc = "switch" /\ tick.prev_priority /\ ~tick.priority )
    => target_mode = Some(ModeAtIndex)

C3_Witness ==
    /\ pc = "switch"
    /\ tick.prev_priority
    /\ ~tick.priority
    /\ ~tick.elapsed
    /\ current_mode = Some(SPORTS)
    /\ target_mode # Some(SPORTS)

\* C4 as stated: when priority is lost and the cycle duration has not
\* elapsed, the former priority mode, still current_mode, stays the target.
C4_KeptUntilCycleTimer ==
    ( /\ pc = "switch"
      /\ tick.prev_priority
      /\ ~tick.priority
      /\ ~tick.elapsed
      /\ current_mode = Some(SPORTS) )
    => target_mode = Some(SPORTS)

\* C4 amended: on the tick after priority is lost the former priority mode
\* stays on display exactly when it is the configured mode at cycle_index;
\* otherwise it is replaced in that very tick, elapsed cycle or not.
C4_KeptOnlyIfModeAtIndex ==
    ( /\ pc = "render"
      /\ tick.prev_priority
      /\ ~tick.priority
      /\ tick.prev_target = Some(SPORTS) )
    => ( current_mode = Some(SPORTS) <=> ModeAtIndex = SPORTS )

C4_Witness ==
    /\ pc = "render"
    /\ tick.prev_priority
    /\ ~tick.priority
    /\ ~tick.elapsed
    /\ tick.switched
    /\ current_mode # Some(SPORTS)

\* the last-render timestamp and the change-detection snapshot of a mode
\* are cleared
EnteredStateCleared(mode) ==
    CASE mode = SPORTS ->
           IsNone(last_sports_render) /\ IsNone(prev_games_snapshot)
      [] mode = CLOCK ->
           IsNone(last_clock_weather_render)
      [] mode = WEATHER ->
           /\ IsNone(last_weather_render)
           /\ IsNone(prev_current_weather)
           /\ IsNone(prev_weather_forecasts)
      [] mode = STOCKS ->
           IsNone(last_stocks_render) /\ IsNone(prev_stock_quotes)

\* C5: whenever the target differs from current_mode, before any image of
\* the entered mode is uploaded the screen has been cleared, current_mode is
\* the target, and the entered mode's last-render timestamp and
\* change-detection snapshot are cleared.
C5_SwitchResetsEnteredMode ==
    ( pc = "render" /\ tick.switched )
    => /\ tick.calls = <<"clear_screen">>
       /\ current_mode = target_mode
       /\ EnteredStateCleared(Val(target_mode))

\* C6 as stated: a skipped mode advances cycle_index by one with
\* wrap-around, uploads nothing in that tick, and a different mode is the
\* target of the next tick.
C6_SkipTargetsDifferentMode ==
    /\ ( tick.skipped
         => /\ "upload_image" \notin Range(tick.calls)
            /\ cycle_index = (tick.select_index + 1) % NumModes )
    /\ ( pc = "switch" /\ tick.prev_skipped # None
         => target_mode # tick.prev_skipped )

\* C6 amended: a skipped mode advances cycle_index by one with wrap-around,
\* clears current_mode and uploads nothing in that tick, so that the next
\* tick performs a mode switch (screen cleared) into its target.
C6_SkipForcesModeSwitch ==
    /\ ( tick.skipped
         => /\ "upload_image" \notin Range(tick.calls)
            /\ cycle_index = (tick.select_index + 1) % NumModes
            /\ cycle_mode = ModeAtIndex
            /\ current_mode = None
            /\ pc = "top" )
    /\ ( pc = "render" /\ tick.prev_skipped # None
         => /\ tick.switched
            /\ tick.calls = <<"clear_screen">> )

C6_Witness ==
    /\ pc = "render"
    /\ tick.prev_skipped # None
    /\ current_mode = tick.prev_skipped
    /\ NumModes > 1

\* C7: a failing fetch leaves the cached data of the mode at its pre-fetch
\* value.
C7_FailedFetchKeepsCache ==
    [][ /\ ( pc = "top" /\ SPORTS \in tick'.failed => games' = games )
        /\ ( pc = "render" /\ STOCKS \in tick'.failed
             => stock_quotes' = stock_quotes )
        /\ ( pc = "render" /\ WEATHER \in tick'.failed
             => /\ current_weather' = current_weather
                /\ weather_forecasts' = weather_forecasts ) ]_vars

\* C8: an UploadError of upload_image fails only that tick's render: the loop
\* keeps running and the adapter stays connected.
C8_UploadErrorKeepsLoopRunning ==
    tick.upload_error => pc # "exited" /\ display_adapter.is_connected


(***************************************************************************)
(* Properties of the display adapter.                                      *)
(***************************************************************************)
OpenChannels == { c \in DOMAIN channels : channels[c].is_connected }

\* C9: upload_image and upload_gif called on an adapter that is not
\* connected (is_connected false: never connected, connect failed, or after
\* disconnect) raise ConnectionError, write no byte to any panel and leave
\* the adapter's channels, clients and connected flag unchanged, on either
\* adapter.
C9_UploadRefusedWhenNotConnected ==
    [][ (ops' = ops + 1 /\ IsUploadCall(last_call') /\ ~_connected)
            => /\ last_call'.raised = "ConnectionError"
               /\ written' = <<>>
               /\ UNCHANGED <<channels, panel_clients, client, _connected>> ]_vars

\* C10: after a connect() that failed (at the link of some panel or at
\* panel initialization) the adapter is not connected and no channel is
\* open.
C10_FailedConnectLeavesNoOpenChannel ==
    (last_call.op = "connect" /\ last_call.raised = "ConnectionError")
        => (~_connected /\ OpenChannels = {})

\* C11: after disconnect() no channel is open and is_connected is false,
\* and the call has not raised, also when closing a channel fails.
C11_DisconnectClosesAllNeverRaises ==
    last_call.op = "disconnect"
        => /\ last_call.raised = ""
           /\ ~_connected
           /\ OpenChannels = {}

\* C12: on a connected adapter, when a write of a sending operation
\* (upload_image, upload_gif, clear_screen, power_on, power_off) fails, no
\* later chunk is written and the operation raises UploadError.
C12_WriteFailureAbortsAndSurfaces ==
    [][ ( /\ ops' = ops + 1
          /\ IsSendCall(last_call')
          /\ ~NotConnected
          /\ last_call'.io_failure # 0 )
            => /\ Len(written') < last_call'.io_failure
               /\ last_call'.raised = "UploadError" ]_vars

\* C13: an upload on a connected adapter whose panel list holds an index
\* outside 0 .. panel_count - 1 raises and writes no byte to any panel,
\* whatever clear_first is.
C13_InvalidPanelNothingSent ==
    [][ ( /\ ops' = ops + 1
          /\ IsUploadCall(last_call')
          /\ ADAPTER_TYPE = "ipixel"
          /\ ~NotConnected
          /\ ~ValidPanels(last_call'.panels, Val(client).panel_count) )
            => /\ last_call'.raised # ""
               /\ written' = <<>> ]_vars

\* The bytes a sequence of writes sends to channel ch, in write order
RECURSIVE BytesTo(_, _)
BytesTo(ws, ch) ==
    IF ws = <<>> THEN <<>>
    ELSE (IF Head(ws).ch = ch THEN Head(ws).data ELSE <<>>)
            \o BytesTo(Tail(ws), ch)

\* The command buffer of a broadcast operation
BroadcastCommand(op) ==
    CASE op = "clear_screen" -> CLEAR_SCREEN
      [] op = "power_off" -> SCREEN_OFF
      [] op \in {"power_on", "connect"} -> SCREEN_ON

\* C14: a broadcast operation that returns (clear_screen, power_on,
\* power_off, and the initialization run by connect) has written its
\* command bytes to the channel of every panel of the group, for every
\* number of panels.
C14_BroadcastReachesEveryPanel ==
    [][ ( /\ ops' = ops + 1
          /\ ADAPTER_TYPE = "ipixel"
          /\ last_call'.op \in {"clear_screen", "power_on", "power_off", "connect"}
          /\ last_call'.raised = ""
          /\ last_call'.io_failure = 0 )
            => \A i \in DOMAIN panel_clients' :
                 BytesTo(written', panel_clients'[i])
                     = BroadcastCommand(last_call'.op) ]_vars

\* The writes of a split send to the target panels ts (0-based indices) of
\* the group: for each, the prepare command to its channel and then the
\* packet of its band of rows, to its channel only
RECURSIVE SplitSends(_, _, _)
SplitSends(pcs, image, ts) ==
    IF ts = <<>> THEN <<>>
    ELSE LET i == Head(ts)
             band == [y \in 1 .. PANEL_HEIGHT |-> image[i * PANEL_HEIGHT + y]]
         IN  <<Write(pcs[i + 1], stop_draw)>>
                \o write_cmd_single(pcs[i + 1], create_png_packet(band))
                \o SplitSends(pcs, image, Tail(ts))

\* The writes of write_cmd(cl, CLEAR_SCREEN) that open an upload with
\* clear_first
ClearPrefix(cl, clear_first) ==
    IF clear_first THEN write_cmd(cl, CLEAR_SCREEN) ELSE <<>>

\* C15: an upload_image that returns, of an image of the canvas height
\* (PANEL_HEIGHT x panel_count) to a valid target selection, has sent to
\* every target panel i the prepare command and the band of rows
\* i*PANEL_HEIGHT .. (i+1)*PANEL_HEIGHT - 1, on panel i's channel only; no
\* selector (None or the empty list) targets all panels.
C15_SplitSendsEachBandToItsPanel ==
    [][ ( /\ ops' = ops + 1
          /\ ADAPTER_TYPE = "ipixel"
          /\ last_call'.op = "upload_image"
          /\ last_call'.raised = ""
          /\ last_call'.io_failure = 0
          /\ Len(Val(last_call'.image)) = PANEL_HEIGHT * Val(client).panel_count )
            => LET cl == Val(client)
                   targets == _normalize_panel_indices(last_call'.panels,
                                                       cl.panel_count)
               IN  written' =
                     ClearPrefix(cl, last_call'.clear_first)
                        \o SplitSends(panel_clients, Val(last_call'.image),
                                      targets) ]_vars

(***************************************************************************)
(* Properties of the protocol functions.                                   *)
(***************************************************************************)
\* The data of the writes of ws that go to channel ch, in write order
ChunksTo(ws, ch) ==
    LET mine == SelectSeq(ws, LAMBDA w : w.ch = ch)
    IN  [k \in DOMAIN mine |-> mine[k].data]

\* the chunks cs rebuild the buffer b, and all but the last have length m
IsChunkingOf(cs, b, m) ==
    /\ Joined(cs) = b
    /\ \A k \in DOMAIN cs :
         /\ Len(cs[k]) \in 1 .. m
         /\ k < Len(cs) => Len(cs[k]) = m

\* C16: the chunks write_cmd_single and write_cmd write to a channel,
\* concatenated in write order, are the buffer, and every chunk but the
\* last has the length of the maximum transfer unit m, which is 512 when
\* the query for it fails.
C16_ChunksReconstructBuffer ==
    protocol_call.op \in {"write_cmd_single", "write_cmd"}
        => LET m == IF IsNone(max_write_without_response_size) THEN 512
                    ELSE Val(max_write_without_response_size)
               ws == Val(protocol_result)
               targets == IF protocol_call.op = "write_cmd" THEN {1, 2} ELSE {1}
           IN  /\ \A w \in Range(ws) : w.ch \in targets
               /\ \A ch \in targets :
                    IsChunkingOf(ChunksTo(ws, ch), protocol_call.data, m)

\* C16 happens: the query for the transfer unit failed and a buffer
\* longer than 1024 bytes was sent in three chunks, 512, 512 and the rest.
C16_Witness ==
    /\ protocol_call.op = "write_cmd_single"
    /\ IsNone(max_write_without_response_size)
    /\ Len(protocol_call.data) > 1024
    /\ Len(Val(protocol_result)) = 3
    /\ Len(Val(protocol_result)[3].data) = Len(protocol_call.data) - 1024

\* C20: switch_endian applied to an even-length hex string returns a
\* string on which switch_endian returns the original string; applied to
\* an odd-length string it raises ValueError and returns nothing.
C20_SwitchEndianInvolution ==
    protocol_call.op = "switch_endian"
        => IF Len(protocol_call.data) % 2 = 0
           THEN /\ protocol_result.raised = ""
                /\ switch_endian(protocol_result.value)
                       = Return(protocol_call.data)
           ELSE protocol_result = Raise("ValueError")

\* C20 happens: a string of three different pairs was switched to another
\* string.
C20_Witness ==
    /\ protocol_call.op = "switch_endian"
    /\ protocol_call.data = <<0, 10, 15, 0, 10, 10>>
    /\ protocol_result = Return(<<10, 10, 15, 0, 0, 10>>)

\* The fields of a still-image header, decoded: little-endian numbers
HeaderTotalLength(h) == h[1] + 256 * h[2]

HeaderPayloadLength(h) == h[6] + 256 * h[7] + 65536 * h[8] + 16777216 * h[9]

HeaderChecksum(h) == Word(h[12] + 256 * h[13], h[10] + 256 * h[11])

\* C18: the header create_png_packet builds for PNG data of png_len >= 1
\* bytes decodes to payload_length = png_len and total_length =
\* png_len + 15, for every size of the data.
C18_HeaderLengthsDecode ==
    /\ protocol_call.op = "create_png_packet.header"
         => LET h == protocol_result.value
            IN  /\ Len(h) = 15
                /\ HeaderPayloadLength(h) = protocol_call.png_len
                /\ HeaderTotalLength(h) = protocol_call.png_len + 15
    /\ protocol_call.op = "create_png_packet"
         => LET h == SubSeq(protocol_result.value, 1, 15)
                payload_len == Len(protocol_result.value) - 15
            IN  /\ payload_len >= 1
                /\ HeaderPayloadLength(h) = payload_len
                /\ HeaderTotalLength(h) = payload_len + 15

\* C19: the checksum stored in bytes 9..12 of the header (little-endian)
\* is the CRC-32 of the bytes that follow the 15-byte header, which are
\* the PNG data.
C19_ChecksumCoversPayloadOnly ==
    protocol_call.op = "create_png_packet"
        => LET packet == protocol_result.value
               payload == SubSeq(packet, 16, Len(packet))
           IN  /\ payload = Png(protocol_call.image)
               /\ HeaderChecksum(SubSeq(packet, 1, 15)) = crc32(payload)

\* C19 happens: the packet of the image of rows 0 and 255 carries the
\* checksum 0x9F931D4E of its four bytes of PNG data, low byte first.
C19_Witness ==
    /\ protocol_call.op = "create_png_packet"
    /\ protocol_call.image = <<0, 255>>
    /\ SubSeq(protocol_result.value, 10, 13) = <<78, 29, 147, 159>>
    /\ SubSeq(protocol_result.value, 16, 19) = <<137, 2, 0, 255>>

\* The message of a window: its pieces, joined
WindowMessage(window) == Joined(window)

\* The payload slice of a window: what follows the 2-byte prefix and the
\* 13-byte header
WindowPayload(window) ==
    SubSeq(WindowMessage(window), 16, Len(WindowMessage(window)))

\* C17: a windowed transfer of a packet that carries the stream gif sends
\* ceil(len(gif) / window_size) windows and then ends; the payload slices
\* of the windows, joined in send order, are gif; window 0 has option
\* byte 0x00 and serial byte 0x01, every later window 0x02 and 0x65.
C17_WindowsReconstructStream ==
    (protocol_call.op = "_send_gif_windowed" /\ ~IsNone(protocol_call.gif))
        => LET gif == Val(protocol_call.gif)
               windows == protocol_result.windows
               window_size == protocol_call.window_size
           IN  /\ protocol_result.windowed
               /\ protocol_result.raised = ""
               /\ Len(windows) = (Len(gif) + window_size - 1) \div window_size
               /\ Joined([w \in DOMAIN windows |-> WindowPayload(windows[w])]) = gif
               /\ \A w \in DOMAIN windows :
                    LET message == WindowMessage(windows[w])
                    IN  /\ Len(message) >= 16
                        /\ message[5] = (IF w = 1 THEN 0 ELSE 2)
                        /\ message[15] = (IF w = 1 THEN 1 ELSE 101)

\* C17 happens: a stream of five bytes in windows of two is sent as three
\* windows, the last one with a single byte and the marks of a later
\* window.
C17_Witness ==
    /\ protocol_call.op = "_send_gif_windowed"
    /\ protocol_call.gif = Some(<<0, 255, 0, 255, 255>>)
    /\ protocol_call.window_size = 2
    /\ Len(protocol_result.windows) = 3
    /\ WindowPayload(protocol_result.windows[3]) = <<255>>
    /\ WindowMessage(protocol_result.windows[1])[5] = 0
    /\ WindowMessage(protocol_result.windows[3])[5] = 2
    /\ WindowMessage(protocol_result.windows[3])[15] = 101

\* int(h, 16) of a hex string
RECURSIVE HexValue(_)
HexValue(h) ==
    IF h = <<>> THEN 0
    ELSE 16 * HexValue(SubSeq(h, 1, Len(h) - 1)) + h[Len(h)]

\* C26: for every hex blob and every width, get_frame_size returns
\* without raising, its result has exactly `width` digits and,
\* endian-swapped back, is half the length of the blob.
C26_FrameSizeHasWidthDigits ==
    protocol_call.op = "get_frame_size"
        => /\ protocol_result.raised = ""
           /\ Len(protocol_result.value) = protocol_call.size
           /\ switch_endian(protocol_result.value).raised = ""
           /\ HexValue(switch_endian(protocol_result.value).value)
                 = protocol_call.len \div 2

\* The fields of an animation packet, decoded
GifPrefix(packet) == packet[1] + 256 * packet[2]

GifChecksum(packet) ==
    Word(packet[12] + 256 * packet[13], packet[10] + 256 * packet[11])

\* C27: the packet create_gif_packet builds for an animation is a 2-byte
\* length prefix, 03 00 00, the size of the animation (low byte first),
\* its CRC-32 (low byte first), 02 01 and the animation bytes; the prefix
\* is the length of the whole packet; _parse_gif_transport gives back the
\* animation bytes.
C27_GifPacketLayout ==
    (protocol_call.op = "create_gif_packet" /\ protocol_call.gif # <<>>)
        => LET gif == protocol_call.gif
               packet == protocol_result.value
               parsed == _parse_gif_transport(packet)
           IN  /\ protocol_result.raised = ""
               /\ Len(packet) = 15 + Len(gif)
               /\ GifPrefix(packet) = Len(packet)
               /\ SubSeq(packet, 3, 5) = <<3, 0, 0>>
               /\ FromLittleEndian(SubSeq(packet, 6, 9)) = Len(gif)
               /\ GifChecksum(packet) = crc32(gif)
               /\ SubSeq(packet, 14, 15) = <<2, 1>>
               /\ SubSeq(packet, 16, Len(packet)) = gif
               /\ ~IsNone(parsed)
               /\ Val(parsed).gif_bytes = gif

\* C27 happens: the packet of the two bytes 00 FF, whose CRC-32 is
\* 0x6CDBFD72: 17 bytes, prefix 11 00.
C27_Witness ==
    /\ protocol_call.op = "create_gif_packet"
    /\ protocol_call.gif = <<0, 255>>
    /\ protocol_result.value =
         <<17, 0, 3, 0, 0, 2, 0, 0, 0, 114, 253, 219, 108, 2, 1, 0, 255>>

\* The bytes begin with an animation wire frame: a 2-byte length prefix,
\* the animation command 03 00, and the tail 02 01 of a small-animation
\* packet or of window 0
IsAnimationTransfer(bytes) ==
    /\ Len(bytes) >= 15
    /\ bytes[3] = 3 /\ bytes[4] = 0
    /\ bytes[14] = 2 /\ bytes[15] = 1

\* The writes of the last call that follow the clear command
AfterClear(cl, clear_first) ==
    SubSeq(written, Len(ClearPrefix(cl, clear_first)) + 1, Len(written))

\* C21: upload_gif on an adapter that is not connected raises
\* ConnectionError and writes nothing; on a connected adapter it raises
\* nothing but UploadError, and when it returns, what it has sent to a
\* panel (after the clear command, if asked for) is an animation wire
\* frame, and some panel has been sent one.
C21_GifSentAsAnimationFrames ==
    (ADAPTER_TYPE = "ipixel" /\ last_call.op = "upload_gif")
        => IF NotConnected
           THEN last_call.raised = "ConnectionError" /\ written = <<>>
           ELSE /\ last_call.raised \in {"", "UploadError"}
                /\ last_call.raised = ""
                     => LET sent == AfterClear(Val(client), last_call.clear_first)
                        IN  /\ sent # <<>>
                            /\ \A ch \in DOMAIN channels :
                                 \/ BytesTo(sent, ch) = <<>>
                                 \/ IsAnimationTransfer(BytesTo(sent, ch))

\* C22: get_info() returns in every state of the adapter (never
\* connected, connected, disconnected), and the device_count it reports is
\* the number of panels of the group.
C22_GetInfoNeverFails ==
    (ADAPTER_TYPE = "ipixel" /\ last_call.op = "get_info")
        => /\ last_call.raised = ""
           /\ get_info(client).value.device_count = Len(IPIXEL_BLE_ADDRESSES)

\* The addresses of the channels the panel group holds, in order (the
\* group keeps the adapter's own list panel_clients)
GroupAddresses ==
    [i \in DOMAIN panel_clients |-> channels[panel_clients[i]].address]

\* C28: after a connect() that returned, whatever calls came before, the
\* panel group holds one channel per configured address, in the
\* configured order: panel_count is the number of addresses and
\* display_height is PANEL_HEIGHT times that number.
C28_OneChannelPerAddressAfterConnect ==
    (ADAPTER_TYPE = "ipixel" /\ last_call.op = "connect" /\ last_call.raised = "")
        => /\ ~IsNone(client)
           /\ Val(client).panel_count = Len(IPIXEL_BLE_ADDRESSES)
           /\ GroupAddresses = IPIXEL_BLE_ADDRESSES
           /\ display_height = PANEL_HEIGHT * Len(IPIXEL_BLE_ADDRESSES)

\* cs is a frame as a panel receives it: the prepare command, then the
\* chunks of one still-image packet in order (joined, they are a packet
\* whose header gives its length and the checksum of its payload), all
\* but the last of the size of the transfer unit
IsOrderedFrame(cs) ==
    /\ Len(cs) >= 2
    /\ cs[1] = stop_draw
    /\ LET packet == Joined(Tail(cs))
       IN  /\ IsChunkingOf(Tail(cs), packet, ChunkSize)
           /\ Len(packet) > 15
           /\ HeaderTotalLength(packet) = Len(packet)
           /\ HeaderPayloadLength(packet) = Len(packet) - 15
           /\ HeaderChecksum(packet) = crc32(SubSeq(packet, 16, Len(packet)))

\* cs is a sequence of such frames, one after the other (a panel named
\* twice in the selection receives two)
RECURSIVE IsOrderedFrames(_)
IsOrderedFrames(cs) ==
    \/ cs = <<>>
    \/ \E n \in 2 .. Len(cs) :
         /\ IsOrderedFrame(SubSeq(cs, 1, n))
         /\ IsOrderedFrames(SubSeq(cs, n + 1, Len(cs)))

\* C25: the writes of one upload are made one after the other, in the
\* order of the data.  An upload_png that returns has written to each
\* panel, after the clear command, the prepare command and then the
\* chunks of the panel's packet in order; a windowed transfer has written
\* to each panel the pieces of window 0, then those of window 1, and so
\* on, each piece in chunks of at most the transfer unit.
C25_WritesStrictlyOrdered ==
    /\ (protocol_call.op = "upload_png" /\ protocol_result.raised = "")
         => LET prefix == ClearPrefix(MultiPanelClient(<<1, 2>>),
                                      protocol_call.clear_first)
                ws == protocol_result.writes
                sent == SubSeq(ws, Len(prefix) + 1, Len(ws))
            IN  /\ SubSeq(ws, 1, Len(prefix)) = prefix
                /\ sent # <<>>
                /\ \A ch \in {1, 2} :
                     IsOrderedFrames(ChunksTo(sent, ch))
    /\ (protocol_call.op = "_send_gif_windowed" /\ protocol_result.windowed)
         => LET windows == protocol_result.windows
                stream == Joined([w \in DOMAIN windows |-> Joined(windows[w])])
            IN  \A ch \in {1, 2} :
                  /\ Joined(ChunksTo(protocol_result.writes, ch)) = stream
                  /\ \A k \in DOMAIN ChunksTo(protocol_result.writes, ch) :
                       Len(ChunksTo(protocol_result.writes, ch)[k]) \in 1 .. ChunkSize

\* C25 happens: an image of the height of two panels, sent with a
\* transfer unit of MaxChunk bytes: panel 2 receives the prepare command
\* and then its packet of 19 bytes in several chunks.
C25_Witness ==
    /\ protocol_call.op = "upload_png"
    /\ protocol_call.image = Rows(2 * PANEL_HEIGHT)
    /\ protocol_call.panels = None
    /\ max_write_without_response_size = Some(MaxChunk)
    /\ protocol_result.raised = ""
    /\ ChunksTo(protocol_result.writes, 2)[1] = stop_draw
    /\ Len(ChunksTo(protocol_result.writes, 2)) = 1 + ((19 + MaxChunk - 1) \div MaxChunk)
    /\ ChunksTo(protocol_result.writes, 1)[2][1] = 19

\* C23: BaseMode.update fetches exactly when should_fetch(now) is true;
\* then without data it returns should_skip with no image; with data and
\* should_render true it renders, sets last_render to now and returns the
\* image; with data and should_render false it returns the empty result and
\* leaves last_render alone.  A skipping result never carries an image.
C23_UpdateFetchesThenSkipsRendersOrRests ==
    mode_call.op = "update" =>
      LET before == mode_call.before
          result == Val(mode_call.result)
          data == has_data(mode_object).value
      IN  /\ mode_call.fetches <=> should_fetch(before, mode_call.now)
          /\ ~mode_call.fetches => mode_object.last_fetch = before.last_fetch
          /\ ~data =>
               /\ result = ModeResult(None, TRUE, FALSE, FALSE)
               /\ IsNone(mode_call.due)
               /\ mode_object.last_render = before.last_render
          /\ data /\ mode_call.due = Some(TRUE) =>
               /\ result.image = render(mode_object)
               /\ ~result.should_skip
               /\ mode_object.last_render = Some(mode_call.now)
          /\ data /\ mode_call.due # Some(TRUE) =>
               /\ mode_call.due = Some(FALSE)
               /\ result = ModeResult(None, FALSE, FALSE, FALSE)
               /\ mode_object.last_render = before.last_render
          /\ result.should_skip => IsNone(result.image)

\* an update that fetched, rendered a second time and returned the image
C23_Witness ==
    /\ mode_call.op = "update"
    /\ mode_call.fetches
    /\ mode_call.due = Some(TRUE)
    /\ ~IsNone(mode_call.before.last_render)
    /\ mode_call.before.last_render # mode_object.last_render
    /\ ~IsNone(Val(mode_call.result).image)

\* The cached data of the mode object differs from the data of its last
\* rendered image
DataChangedSinceRender(self) ==
    /\ ~IsNone(last_rendered_data)
    /\ CachedData(self) # Val(last_rendered_data)

\* At t_now the refresh interval has elapsed since the last render
RefreshIntervalElapsed(self, t_now) ==
    /\ ~IsNone(self.last_render)
    /\ t_now - Val(self.last_render) >= self.refresh_interval

\* C24: for every concrete mode, should_render(now) is true whenever the
\* cached data differs from the data of the last render, and whenever the
\* refresh interval has elapsed since the last render: both where update
\* asks it, after its fetch, and asked of the object update leaves.
C24_ShouldRenderOnChangeOrInterval ==
    /\ mode_call.op = "update" /\ ~IsNone(mode_call.due) =>
         ( \/ DataChangedSinceRender(mode_call.asked)
           \/ RefreshIntervalElapsed(mode_call.asked, mode_call.now)
           => Val(mode_call.due) )
    /\ \A t_now \in mode_now .. MaxTime :
         ( \/ DataChangedSinceRender(mode_object)
           \/ RefreshIntervalElapsed(mode_object, t_now)
           => should_render(mode_object, t_now).value )

\* A step of a tick whose target was chosen by priority: the step that
\* chooses, or a later step of the same tick
InPriorityTick ==
    IF pc = "top" THEN pc' = "switch" /\ tick'.priority
    ELSE pc \in {"switch", "render"} /\ tick.priority

PriorityTickKeepsCycle == InPriorityTick => UNCHANGED cycleVars

CycleStateConsistent ==
    /\ cycle_index \in 0 .. NumModes - 1
    /\ cycle_mode = ModeAtIndex

\* C29: a tick whose target is chosen by priority leaves cycle_index,
\* cycle_mode and last_mode_switch unchanged; at every point of the loop
\* cycle_index is in [0, number of configured modes) and cycle_mode is the
\* configured mode at cycle_index.
C29_PriorityLeavesCycleAlone ==
    [][PriorityTickKeepsCycle]_vars /\ []CycleStateConsistent

\* a priority tick has uploaded sports while the cycle points at another
\* mode and the cycle timer has run out
C29_Witness ==
    /\ pc = "top"
    /\ tick.priority
    /\ tick.slept
    /\ cycle_index > 0
    /\ cycle_mode # SPORTS
    /\ CycleElapsed(now, last_mode_switch)

\* The mode on display has data to show
CurrentModeHasData ==
    /\ ~IsNone(current_mode)
    /\ CASE Val(current_mode) = SPORTS -> DisplayGames(games) # <<>>
         [] Val(current_mode) \in {CLOCK, WEATHER} -> ~IsNone(current_weather)
         [] Val(current_mode) = STOCKS -> stock_quotes # <<>>

\* The tick recorded in tick cleared the screen for a mode switch and ran
\* to its sleep
SwitchedTickDone == pc = "top" /\ tick.switched /\ tick.slept

\* C30: after a mode switch has cleared the screen, if the entered mode has
\* data, an image of that mode is uploaded within the same tick: the
\* display is not left cleared while the current mode has data.
C30_ClearIsFollowedByUpload ==
    SwitchedTickDone /\ CurrentModeHasData
        => display_adapter.screen = Val(current_mode)

=============================================================================
